---- MODULE Spec2Model ----
(***************************************************************************)
(* FROST threshold signatures (bartke/frost): the two-round distributed    *)
(* key generation (Round0/Round1/Round2) and the two-round signing         *)
(* protocol (SignInit/SignRound1/SignRound2), each party stepped by its    *)
(* host with batches of messages.                                          *)
(*                                                                         *)
(* The Ristretto255 group is a cyclic group of prime order; it is modelled *)
(* as the additive group of integers modulo the prime Q with base point G, *)
(* and its scalar field as the integers modulo Q.  SHA-512 followed by the *)
(* uniform reduction is modelled as a positional hash of the hashed fields.*)
(***************************************************************************)
EXTENDS Integers, Sequences, FiniteSets, TLC

\* ------------------------------------------------------------------------
\* Bounds of the model
\* ------------------------------------------------------------------------

\* polynomial coefficients (and secrets) are sampled from 0..MaxCoef
MaxCoef == 1

\* (N, T) pairs of the key generations explored
Configs == {<<2, 1>>, <<3, 1>>, <<3, 2>>}

\* every party ID of some configuration
Parties == UNION {1 .. c[1] : c \in Configs}

\* the Schnorr nonce k sampled in Round0
ProofNonces == {2}

\* ------------------------------------------------------------------------
\* Group primitives: scalars mod Q, elements of the prime-order group
\* ------------------------------------------------------------------------

\* order of the group and of the scalar field
Q == 7

\* the base point B, as an element of the additive group Z_Q
G == 3

\* modulus of the hash digest before its reduction to a scalar
HashMod == 251

Scalars == 0 .. (Q - 1)
Elements == 0 .. (Q - 1)

\* ristretto.NewIdentityElement
Identity == 0

\* ristretto.NewScalar
Zero == 0

ScAdd(a, b) == (a + b) % Q
ScMul(a, b) == (a * b) % Q
ScNeg(a) == (Q - (a % Q)) % Q
ScSub(a, b) == ScAdd(a, ScNeg(b))

RECURSIVE ScPow(_, _)
ScPow(a, n) == IF n = 0 THEN 1 % Q ELSE ScMul(a, ScPow(a, n - 1))

\* inverse in the scalar field (Fermat); the inverse of zero is zero
ScInv(a) == ScPow(a, Q - 2)

\* Element.ScalarBaseMult: [s]B
ScalarBaseMult(s) == (G * s) % Q

\* Element.ScalarMult: [s]P
ScalarMult(s, P) == (s * P) % Q

\* Element.Add / Element.Negate / Element.Equal
ElAdd(P1, P2) == (P1 + P2) % Q
ElNeg(P) == (Q - (P % Q)) % Q

\* SHA-512 over the concatenation of the fields, as a digest in 0..HashMod-1
RECURSIVE HashFrom(_, _, _)
HashFrom(fields, i, acc) ==
    IF i > Len(fields) THEN acc
    ELSE HashFrom(fields, i + 1, (acc * 31 + fields[i] + 1) % HashMod)

Digest(fields) == HashFrom(fields, 1, 7)

\* Scalar.SetUniformBytes(digest): reduction of the digest to a scalar
SetUniformBytes(d) == d % Q

\* ------------------------------------------------------------------------
\* Party identifiers
\* ------------------------------------------------------------------------

\* party.ID.Scalar: the injection of an ID into the scalar field
IDScalar(id) == id % Q

\* party.ID.Bytes: two bytes, big endian
IDBytes(id) == <<id \div 256, id % 256>>

\* party.FromBytes
IDFromBytes(b) == b[1] * 256 + b[2]

SeqToSet(s) == {s[i] : i \in DOMAIN s}

SeqContains(s, x) == \E i \in DOMAIN s : s[i] = x

HasDuplicates(s) == \E i, j \in DOMAIN s : i < j /\ s[i] = s[j]

\* product over j in ids (a sequence), j # id, of  j / (j - id)
RECURSIVE LagrangeFrom(_, _, _, _)
LagrangeFrom(id, ids, i, acc) ==
    IF i > Len(ids) THEN acc
    ELSE IF ids[i] = id THEN LagrangeFrom(id, ids, i + 1, acc)
    ELSE LagrangeFrom(id, ids, i + 1,
            ScMul(acc, ScMul(IDScalar(ids[i]),
                             ScInv(ScSub(IDScalar(ids[i]), IDScalar(id))))))

\* party.ID.Lagrange(ids): [err, value]; fails when id is not in ids, or ids
\* holds a duplicate or the zero ID
Lagrange(id, ids) ==
    IF ~SeqContains(ids, id) \/ HasDuplicates(ids) \/ SeqContains(ids, 0)
    THEN [err |-> TRUE, value |-> 0]
    ELSE [err |-> FALSE, value |-> LagrangeFrom(id, ids, 1, 1)]

\* ascending sequence of the members of a set of IDs
RECURSIVE SortedSeq(_)
SortedSeq(S) ==
    IF S = {} THEN <<>>
    ELSE LET m == CHOOSE x \in S : \A y \in S : x <= y
         IN <<m>> \o SortedSeq(S \ {m})

\* ------------------------------------------------------------------------
\* Polynomial and polynomial in the exponent
\* ------------------------------------------------------------------------

\* a polynomial is the function 0..degree -> coefficient; rnd[k] is the
\* k-th scalar read from the random source

NewPolynomialDegreeOff(degree, constant, rnd) ==
    [k \in 0 .. (degree + 1) |-> IF k = 0 THEN constant ELSE rnd[((k - 1) % degree) + 1]]

NewPolynomial(degree, constant, rnd) ==
    [k \in 0 .. degree |-> IF k = 0 THEN constant ELSE rnd[k]]

PolyDegree(p) == Cardinality(DOMAIN p) - 1

\* Horner's method run from the constant term upwards
RECURSIVE HornerAscending(_, _, _, _)
HornerAscending(p, x, i, result) ==
    IF i < 0 THEN result
    ELSE ScAdd(ScMul(HornerAscending(p, x, i - 1, result), x), p[i])

RECURSIVE Horner(_, _, _, _)
Horner(p, x, i, result) ==
    IF i < 0 THEN result
    ELSE Horner(p, x, i - 1, ScAdd(ScMul(result, x), p[i]))

\* Polynomial.Evaluate: [panic, value]; evaluating at zero panics
PolyEvaluate(p, index) ==
    IF index = Zero THEN [panic |-> TRUE, value |-> 0]
    ELSE [panic |-> FALSE, value |-> Horner(p, index, PolyDegree(p), 0)]

\* polynomial.NewPolynomialExponent: coefficient-wise [a_k]B
NewPolynomialExponent(p) == [k \in DOMAIN p |-> ScalarBaseMult(p[k])]

\* Exponent.Constant
ExpConstant(F) == F[0]

RECURSIVE ExpEvalFrom(_, _, _, _)
ExpEvalFrom(F, x, i, result) ==
    IF i < 0 THEN result
    ELSE ExpEvalFrom(F, x, i - 1, ElAdd(ScalarMult(x, result), F[i]))

\* Exponent.Evaluate: sum of [x^k]A_k
ExpEvaluate(F, x) == ExpEvalFrom(F, x, Cardinality(DOMAIN F) - 1, Identity)

\* Exponent.Add: coefficient-wise addition; operands of different degree
\* leave the receiver unchanged
ExpAdd(F1, F2) ==
    IF DOMAIN F1 = DOMAIN F2
    THEN [k \in DOMAIN F1 |-> ElAdd(F1[k], F2[k])]
    ELSE F1

\* Polynomial.MarshalBinary: degree, then the coefficients
PolyMarshal(p) == <<PolyDegree(p)>> \o [i \in 1 .. (PolyDegree(p) + 1) |-> p[i - 1]]

\* Polynomial.UnmarshalBinary: [err, value]
PolyUnmarshal(data) ==
    IF Len(data) = 0 \/ Len(data) - 1 # data[1] + 1
    THEN [err |-> TRUE, value |-> <<>>]
    ELSE [err |-> FALSE, value |-> [k \in 0 .. data[1] |-> data[k + 2]]]

\* ------------------------------------------------------------------------
\* Schnorr proof of knowledge
\* ------------------------------------------------------------------------

\* the 32 zero bytes of context
ZeroCtx == 0

\* tag of the "FROST-Schnorr" domain
TagSchnorr == 1

SchnorrChallenge(id, public, ctx, M) ==
    SetUniformBytes(Digest(<<TagSchnorr>> \o IDBytes(id) \o <<ctx, public, M>>))

\* a proof whose response leaves out the secret
NewSchnorrProofNoSecret(id, public, ctx, secret, k) ==
    LET M == ScalarBaseMult(k)
        e == SchnorrChallenge(id, public, ctx, M)
    IN [nil |-> FALSE, M |-> M, S |-> ScAdd(k, e)]

\* zk.NewSchnorrProof with the sampled nonce k
NewSchnorrProof(id, public, ctx, secret, k) ==
    LET M == ScalarBaseMult(k)
        e == SchnorrChallenge(id, public, ctx, M)
    IN [nil |-> FALSE, M |-> M, S |-> ScAdd(k, ScMul(e, secret))]

\* Schnorr.Verify: [s]B - [e]A = M
SchnorrVerify(proof, id, public, ctx) ==
    LET e == SchnorrChallenge(id, public, ctx, proof.M)
    IN ElAdd(ScalarBaseMult(proof.S), ElNeg(ScalarMult(e, public))) = proof.M

\* ------------------------------------------------------------------------
\* Messages
\* ------------------------------------------------------------------------

MessageTypeNone == 0
MessageTypeKeyGen1 == 1
MessageTypeKeyGen2 == 2
MessageTypeSign1 == 3
MessageTypeSign2 == 4

\* the nil payload pointers of a Message
NilKeyGen1 == [nil |-> TRUE, Proof |-> [nil |-> TRUE, M |-> 0, S |-> 0], Commitments |-> <<>>]
NilKeyGen2 == [nil |-> TRUE, Share |-> 0]
NilSign1 == [nil |-> TRUE, Di |-> 0, Ei |-> 0]
NilSign2 == [nil |-> TRUE, Zi |-> 0]

\* NewKeyGen1: broadcast (To = 0)
NewKeyGen1(from, proof, commitments) ==
    [Type |-> MessageTypeKeyGen1, From |-> from, To |-> 0,
     KeyGen1 |-> [nil |-> FALSE, Proof |-> proof, Commitments |-> commitments],
     KeyGen2 |-> NilKeyGen2, Sign1 |-> NilSign1, Sign2 |-> NilSign2]

\* NewKeyGen2: unicast
NewKeyGen2(from, to, share) ==
    [Type |-> MessageTypeKeyGen2, From |-> from, To |-> to,
     KeyGen1 |-> NilKeyGen1,
     KeyGen2 |-> [nil |-> FALSE, Share |-> share],
     Sign1 |-> NilSign1, Sign2 |-> NilSign2]

\* NewSign1: broadcast
NewSign1(from, commitmentD, commitmentE) ==
    [Type |-> MessageTypeSign1, From |-> from, To |-> 0,
     KeyGen1 |-> NilKeyGen1, KeyGen2 |-> NilKeyGen2,
     Sign1 |-> [nil |-> FALSE, Di |-> commitmentD, Ei |-> commitmentE],
     Sign2 |-> NilSign2]

\* NewSign2: broadcast
NewSign2(from, signatureShare) ==
    [Type |-> MessageTypeSign2, From |-> from, To |-> 0,
     KeyGen1 |-> NilKeyGen1, KeyGen2 |-> NilKeyGen2, Sign1 |-> NilSign1,
     Sign2 |-> [nil |-> FALSE, Zi |-> signatureShare]]

\* the nil *Message
NoMsg ==
    [Type |-> MessageTypeNone, From |-> 0, To |-> 0, KeyGen1 |-> NilKeyGen1,
     KeyGen2 |-> NilKeyGen2, Sign1 |-> NilSign1, Sign2 |-> NilSign2]

\* ------------------------------------------------------------------------
\* Key generation: the State of one party and its three rounds
\* ------------------------------------------------------------------------

\* a Go map: nil until made; writing to a nil map panics
NilMap == [nil |-> TRUE, m |-> <<>>]
EmptyMap == [nil |-> FALSE, m |-> <<>>]

MapHas(mp, k) == k \in DOMAIN mp.m

MapPut(mp, k, v) ==
    [nil |-> FALSE, m |-> [x \in (DOMAIN mp.m) \cup {k} |-> IF x = k THEN v ELSE mp.m[x]]]

\* the State before Round0 has run
NoState ==
    [SelfID |-> 0, PartyIDs |-> <<>>, Threshold |-> 0, Polynomial |-> <<>>,
     Secret |-> 0, Commitments |-> NilMap, CommitmentsSum |-> <<>>]

\* Round0(selfID, n, t): rnd[0] is the sampled secret, rnd[1..t] the sampled
\* coefficients, k the nonce of the Schnorr proof.  The Commitments map is
\* left nil.
Round0(selfID, n, t, rnd, k) ==
    LET partyIDs == [i \in 1 .. n |-> i]
        poly == NewPolynomial(t, rnd[0], rnd)
        csum == NewPolynomialExponent(poly)
        proof == NewSchnorrProof(selfID, ExpConstant(csum), ZeroCtx, rnd[0], k)
        state == [SelfID |-> selfID, PartyIDs |-> partyIDs, Threshold |-> t,
                  Polynomial |-> poly,
                  Secret |-> PolyEvaluate(poly, IDScalar(selfID)).value,
                  Commitments |-> NilMap, CommitmentsSum |-> csum]
    IN [res |-> IF PolyEvaluate(poly, IDScalar(selfID)).panic THEN "panic" ELSE "ok",
        msg |-> NewKeyGen1(selfID, proof, csum), state |-> state]

\* one KeyGen1 message of the Round1 loop: [res, state]
Round1MsgNoSum(state, msg) ==
    IF msg.From = state.SelfID THEN [res |-> "ok", state |-> state]
    ELSE IF msg.Type # MessageTypeKeyGen1 THEN [res |-> "error", state |-> state]
    ELSE IF msg.KeyGen1.nil \/ msg.KeyGen1.Proof.nil THEN [res |-> "panic", state |-> state]
    ELSE IF ~SchnorrVerify(msg.KeyGen1.Proof, msg.From,
                           ExpConstant(msg.KeyGen1.Commitments), ZeroCtx)
         THEN [res |-> "error", state |-> state]
    ELSE IF state.Commitments.nil THEN [res |-> "panic", state |-> state]
    ELSE [res |-> "ok",
          state |-> [state EXCEPT
             !.Commitments = MapPut(@, msg.From, msg.KeyGen1.Commitments)]]

Round1MsgNoVerify(state, msg) ==
    IF msg.From = state.SelfID THEN [res |-> "ok", state |-> state]
    ELSE IF msg.Type # MessageTypeKeyGen1 THEN [res |-> "error", state |-> state]
    ELSE IF msg.KeyGen1.nil \/ msg.KeyGen1.Proof.nil THEN [res |-> "panic", state |-> state]
    ELSE IF state.Commitments.nil THEN [res |-> "panic", state |-> state]
    ELSE [res |-> "ok",
          state |-> [state EXCEPT
             !.Commitments = MapPut(@, msg.From, msg.KeyGen1.Commitments),
             !.CommitmentsSum = ExpAdd(@, msg.KeyGen1.Commitments)]]

Round1Msg(state, msg) ==
    IF msg.From = state.SelfID THEN [res |-> "ok", state |-> state]
    ELSE IF msg.Type # MessageTypeKeyGen1 THEN [res |-> "error", state |-> state]
    ELSE IF msg.KeyGen1.nil \/ msg.KeyGen1.Proof.nil THEN [res |-> "panic", state |-> state]
    ELSE IF ~SchnorrVerify(msg.KeyGen1.Proof, msg.From,
                           ExpConstant(msg.KeyGen1.Commitments), ZeroCtx)
         THEN [res |-> "error", state |-> state]
    ELSE IF state.Commitments.nil THEN [res |-> "panic", state |-> state]
    ELSE [res |-> "ok",
          state |-> [state EXCEPT
             !.Commitments = MapPut(@, msg.From, msg.KeyGen1.Commitments),
             !.CommitmentsSum = ExpAdd(@, msg.KeyGen1.Commitments)]]

RECURSIVE Round1Loop(_, _, _)
Round1Loop(state, inputMsgs, i) ==
    IF i > Len(inputMsgs) THEN [res |-> "ok", state |-> state]
    ELSE LET r == Round1Msg(state, inputMsgs[i])
         IN IF r.res # "ok" THEN r ELSE Round1Loop(r.state, inputMsgs, i + 1)

\* the KeyGen2 messages of Round1: one for each party ID but the own
RECURSIVE Round1Out(_, _)
Round1Out(state, i) ==
    IF i > Len(state.PartyIDs) THEN <<>>
    ELSE IF state.PartyIDs[i] = state.SelfID THEN Round1Out(state, i + 1)
    ELSE <<NewKeyGen2(state.SelfID, state.PartyIDs[i],
                      PolyEvaluate(state.Polynomial, IDScalar(state.PartyIDs[i])).value)>>
         \o Round1Out(state, i + 1)

\* Round1(state, inputMsgs): [res, msgs, state]; the state is the caller's
\* object, so what the loop wrote before an error stays written
Round1(state, inputMsgs) ==
    LET r == Round1Loop(state, inputMsgs, 1)
    IN IF r.res # "ok" THEN [res |-> r.res, msgs |-> <<>>, state |-> r.state]
       ELSE [res |-> "ok", msgs |-> Round1Out(r.state, 1),
             state |-> [r.state EXCEPT
                !.Secret = PolyEvaluate(r.state.Polynomial, IDScalar(r.state.SelfID)).value]]

\* one KeyGen2 message of the Round2 loop: [res, state]
Round2MsgNoAdd(state, msg) ==
    IF msg.Type # MessageTypeKeyGen2 THEN [res |-> "error", state |-> state]
    ELSE IF msg.From = state.SelfID THEN [res |-> "ok", state |-> state]
    ELSE IF msg.KeyGen2.nil THEN [res |-> "panic", state |-> state]
    ELSE IF ~MapHas(state.Commitments, msg.From) THEN [res |-> "error", state |-> state]
    ELSE IF ScalarBaseMult(msg.KeyGen2.Share)
              # ExpEvaluate(state.Commitments.m[msg.From], IDScalar(state.SelfID))
         THEN [res |-> "error", state |-> state]
    ELSE [res |-> "ok", state |-> state]

Round2MsgNoVSS(state, msg) ==
    IF msg.Type # MessageTypeKeyGen2 THEN [res |-> "error", state |-> state]
    ELSE IF msg.From = state.SelfID THEN [res |-> "ok", state |-> state]
    ELSE IF msg.KeyGen2.nil THEN [res |-> "panic", state |-> state]
    ELSE IF ~MapHas(state.Commitments, msg.From) THEN [res |-> "error", state |-> state]
    ELSE [res |-> "ok",
          state |-> [state EXCEPT !.Secret = ScAdd(@, msg.KeyGen2.Share)]]

Round2Msg(state, msg) ==
    IF msg.Type # MessageTypeKeyGen2 THEN [res |-> "error", state |-> state]
    ELSE IF msg.From = state.SelfID THEN [res |-> "ok", state |-> state]
    ELSE IF msg.KeyGen2.nil THEN [res |-> "panic", state |-> state]
    ELSE IF ~MapHas(state.Commitments, msg.From) THEN [res |-> "error", state |-> state]
    ELSE IF ScalarBaseMult(msg.KeyGen2.Share)
              # ExpEvaluate(state.Commitments.m[msg.From], IDScalar(state.SelfID))
         THEN [res |-> "error", state |-> state]
    ELSE [res |-> "ok",
          state |-> [state EXCEPT !.Secret = ScAdd(@, msg.KeyGen2.Share)]]

RECURSIVE Round2Loop(_, _, _)
Round2Loop(state, inputMsgs, i) ==
    IF i > Len(inputMsgs) THEN [res |-> "ok", state |-> state]
    ELSE LET r == Round2Msg(state, inputMsgs[i])
         IN IF r.res # "ok" THEN r ELSE Round2Loop(r.state, inputMsgs, i + 1)

\* eddsa.Public and eddsa.SecretShare when Round2 returned none
NoPublic == [PartyIDs |-> <<>>, Threshold |-> 0, Shares |-> <<>>, GroupKey |-> 0]
NoSecretShare == [ID |-> 0, Secret |-> 0]

\* the eddsa.Public built at the end of Round2
Round2Public(state) ==
    [PartyIDs |-> state.PartyIDs, Threshold |-> state.Threshold,
     Shares |-> [id \in SeqToSet(state.PartyIDs) |->
                    ExpEvaluate(state.CommitmentsSum, IDScalar(id))],
     GroupKey |-> ExpConstant(state.CommitmentsSum)]

\* Round2(state, inputMsgs): [res, pub, sec, state]
Round2(state, inputMsgs) ==
    LET r == Round2Loop(state, inputMsgs, 1)
    IN IF r.res # "ok"
       THEN [res |-> r.res, pub |-> NoPublic, sec |-> NoSecretShare, state |-> r.state]
       ELSE [res |-> "ok", pub |-> Round2Public(r.state),
             sec |-> [ID |-> r.state.SelfID, Secret |-> r.state.Secret],
             state |-> r.state]

\* State.MarshalJSON: the fields as their encodings
StateMarshalJSON(s) ==
    [id |-> IDBytes(s.SelfID), party_ids |-> s.PartyIDs, threshold |-> s.Threshold,
     polynomial |-> PolyMarshal(s.Polynomial), secret |-> s.Secret,
     commitments |-> {<<IDBytes(id), s.Commitments.m[id]>> : id \in DOMAIN s.Commitments.m},
     commitments_sum |-> s.CommitmentsSum]

\* State.UnmarshalJSON: the Commitments map is made anew, so it is never nil
StateUnmarshalJSON(data) ==
    [SelfID |-> IDFromBytes(data.id), PartyIDs |-> data.party_ids,
     Threshold |-> data.threshold,
     Polynomial |-> PolyUnmarshal(data.polynomial).value,
     Secret |-> data.secret,
     Commitments |->
        [nil |-> FALSE,
         m |-> [id \in {IDFromBytes(e[1]) : e \in data.commitments} |->
                  (CHOOSE e \in data.commitments : IDFromBytes(e[1]) = id)[2]]],
     CommitmentsSum |-> data.commitments_sum]

\* Scalar.SetBytesWithClamping: the three low bits and the top bit of the
\* 32 bytes are cleared, bit 254 is set, and the number is reduced to a scalar
\* (2^254 is computed as (2^16)^15 * 2^14)
SetBytesWithClamping(b) ==
    ScAdd(ScMul(ScPow(ScPow(2, 16), 15), ScPow(2, 14)), (8 * (b \div 8)) % Q)

\* State.UnmarshalJSON of the second copy of the key generation package: it
\* differs from the first in decoding the secret with clamping
StateUnmarshalJSONClamping(data) ==
    [StateUnmarshalJSON(data) EXCEPT !.Secret = SetBytesWithClamping(data.secret)]

\* ------------------------------------------------------------------------
\* Signing: the signer rows, the SignerState and its three rounds
\* ------------------------------------------------------------------------

\* tag of the "FROST-SHA512" domain
TagFrost == 2

\* a challenge that hashes the key before R
ComputeChallengeKeyFirst(R, groupKey, message) ==
    SetUniformBytes(Digest(<<groupKey, R, message>>))

\* eddsa.ComputeChallenge: c = H(R || A || m), reduced to a scalar
ComputeChallenge(R, groupKey, message) ==
    SetUniformBytes(Digest(<<R, groupKey, message>>))

\* the nil *eddsa.Signature
NoSignature == [nil |-> TRUE, R |-> Identity, S |-> Zero]

\* eddsa.PublicKey.Verify: [S]B = R + [c]A with c recomputed from R, A, m
Verify(groupKey, message, sig) ==
    ScalarBaseMult(sig.S)
        = ElAdd(sig.R, ScalarMult(ComputeChallenge(sig.R, groupKey, message), groupKey))

\* party.IDSlice.IsSubsetOf
IsSubsetOf(ids, others) == \A i \in DOMAIN ids : SeqContains(others, ids[i])

NewSigner ==
    [Public |-> Identity, Di |-> Identity, Ei |-> Identity, Ri |-> Identity,
     Pi |-> Zero, Zi |-> Zero]

\* the SignerState when SignInit returned none
NoSignerState ==
    [SelfID |-> 0, SignerIDs |-> <<>>, Message |-> 0, Signers |-> <<>>,
     GroupKey |-> Identity, SecretKeyShare |-> Zero, E |-> Zero, D |-> Zero,
     C |-> Zero, R |-> Identity]

SignInitNoShareLookup(signerIDs, secret, shares, message, d, e) ==
    LET fail == [res |-> "error", msg |-> NoMsg, state |-> NoSignerState]
    IN IF ~SeqContains(signerIDs, secret.ID) THEN fail
       ELSE IF ~IsSubsetOf(signerIDs, shares.PartyIDs) THEN fail
       ELSE IF \E i \in DOMAIN signerIDs :
                  \/ signerIDs[i] = 0
                  \/ Lagrange(signerIDs[i], signerIDs).err
            THEN fail
       ELSE LET rows == [id \in SeqToSet(signerIDs) |->
                           [NewSigner EXCEPT
                              !.Public = ScalarMult(Lagrange(id, signerIDs).value,
                                                    IF id \in DOMAIN shares.Shares
                                                    THEN shares.Shares[id]
                                                    ELSE Identity)]]
                self == [rows[secret.ID] EXCEPT !.Di = ScalarBaseMult(d),
                                                !.Ei = ScalarBaseMult(e)]
                state == [SelfID |-> secret.ID, SignerIDs |-> signerIDs,
                          Message |-> message,
                          Signers |-> [rows EXCEPT ![secret.ID] = self],
                          GroupKey |-> shares.GroupKey,
                          SecretKeyShare |->
                              ScMul(Lagrange(secret.ID, signerIDs).value, secret.Secret),
                          E |-> e, D |-> d, C |-> Zero, R |-> Identity]
            IN [res |-> "ok", msg |-> NewSign1(secret.ID, self.Di, self.Ei),
                state |-> state]

\* SignInit with the public shares taken as they are, without the Lagrange
\* coefficients
SignInitSharesNotWeighted(signerIDs, secret, shares, message, d, e) ==
    LET fail == [res |-> "error", msg |-> NoMsg, state |-> NoSignerState]
    IN IF ~SeqContains(signerIDs, secret.ID) THEN fail
       ELSE IF ~IsSubsetOf(signerIDs, shares.PartyIDs) THEN fail
       ELSE IF \E i \in DOMAIN signerIDs :
                  \/ signerIDs[i] = 0
                  \/ signerIDs[i] \notin DOMAIN shares.Shares
                  \/ Lagrange(signerIDs[i], signerIDs).err
            THEN fail
       ELSE LET rows == [id \in SeqToSet(signerIDs) |->
                           [NewSigner EXCEPT
                              !.Public = shares.Shares[id]]]
                self == [rows[secret.ID] EXCEPT !.Di = ScalarBaseMult(d),
                                                !.Ei = ScalarBaseMult(e)]
                state == [SelfID |-> secret.ID, SignerIDs |-> signerIDs,
                          Message |-> message,
                          Signers |-> [rows EXCEPT ![secret.ID] = self],
                          GroupKey |-> shares.GroupKey,
                          SecretKeyShare |->
                              ScMul(Lagrange(secret.ID, signerIDs).value, secret.Secret),
                          E |-> e, D |-> d, C |-> Zero, R |-> Identity]
            IN [res |-> "ok", msg |-> NewSign1(secret.ID, self.Di, self.Ei),
                state |-> state]

\* SignInit(signerIDs, secret, shares, message): d and e are the sampled
\* nonces.  [res, msg, state]
SignInit(signerIDs, secret, shares, message, d, e) ==
    LET fail == [res |-> "error", msg |-> NoMsg, state |-> NoSignerState]
    IN IF ~SeqContains(signerIDs, secret.ID) THEN fail
       ELSE IF ~IsSubsetOf(signerIDs, shares.PartyIDs) THEN fail
       ELSE IF \E i \in DOMAIN signerIDs :
                  \/ signerIDs[i] = 0
                  \/ signerIDs[i] \notin DOMAIN shares.Shares
                  \/ Lagrange(signerIDs[i], signerIDs).err
            THEN fail
       ELSE LET rows == [id \in SeqToSet(signerIDs) |->
                           [NewSigner EXCEPT
                              !.Public = ScalarMult(Lagrange(id, signerIDs).value,
                                                    shares.Shares[id])]]
                self == [rows[secret.ID] EXCEPT !.Di = ScalarBaseMult(d),
                                                !.Ei = ScalarBaseMult(e)]
                state == [SelfID |-> secret.ID, SignerIDs |-> signerIDs,
                          Message |-> message,
                          Signers |-> [rows EXCEPT ![secret.ID] = self],
                          GroupKey |-> shares.GroupKey,
                          SecretKeyShare |->
                              ScMul(Lagrange(secret.ID, signerIDs).value, secret.Secret),
                          E |-> e, D |-> d, C |-> Zero, R |-> Identity]
            IN [res |-> "ok", msg |-> NewSign1(secret.ID, self.Di, self.Ei),
                state |-> state]

\* the list B of computeRhos: (j || Dj || Ej) for the signers j in the order
\* of state.SignerIDs
RECURSIVE RhoList(_, _)
RhoList(state, i) ==
    IF i > Len(state.SignerIDs) THEN <<>>
    ELSE LET id == state.SignerIDs[i]
         IN IDBytes(id) \o <<state.Signers[id].Di, state.Signers[id].Ei>>
            \o RhoList(state, i + 1)

RhoOfSelfID(state, id) ==
    SetUniformBytes(Digest(<<TagFrost>> \o IDBytes(state.SelfID)
                           \o <<Digest(<<state.Message>>)>> \o RhoList(state, 1)))

\* the binding factor of one signer: H("FROST-SHA512" || id || H(m) || B)
Rho(state, id) ==
    SetUniformBytes(Digest(<<TagFrost>> \o IDBytes(id)
                           \o <<Digest(<<state.Message>>)>> \o RhoList(state, 1)))

\* SignerState.computeRhos: Pi of every signer of state.SignerIDs
computeRhos(state) ==
    [state EXCEPT !.Signers =
        [id \in DOMAIN state.Signers |->
            IF SeqContains(state.SignerIDs, id)
            THEN [state.Signers[id] EXCEPT !.Pi = Rho(state, id)]
            ELSE state.Signers[id]]]

\* one Sign1 message of the SignRound1 loop: [res, state]
SignRound1MsgNoIdentityCheck(state, msg) ==
    IF msg.From = state.SelfID THEN [res |-> "ok", state |-> state]
    ELSE IF msg.Sign1.nil THEN [res |-> "panic", state |-> state]
    ELSE IF msg.From \notin DOMAIN state.Signers THEN [res |-> "panic", state |-> state]
    ELSE [res |-> "ok",
          state |-> [state EXCEPT !.Signers[msg.From].Di = msg.Sign1.Di,
                                  !.Signers[msg.From].Ei = msg.Sign1.Ei]]

\* one Sign1 message of the loop of messages.SignRound1, the round function
\* of the older package: there is no test of msg.From against state.SelfID
messages_SignRound1Msg(state, msg) ==
    IF msg.Sign1.nil THEN [res |-> "panic", state |-> state]
    ELSE IF msg.Sign1.Di = Identity \/ msg.Sign1.Ei = Identity
         THEN [res |-> "error", state |-> state]
    ELSE IF msg.From \notin DOMAIN state.Signers THEN [res |-> "panic", state |-> state]
    ELSE [res |-> "ok",
          state |-> [state EXCEPT !.Signers[msg.From].Di = msg.Sign1.Di,
                                  !.Signers[msg.From].Ei = msg.Sign1.Ei]]

SignRound1Msg(state, msg) ==
    IF msg.From = state.SelfID THEN [res |-> "ok", state |-> state]
    ELSE IF msg.Sign1.nil THEN [res |-> "panic", state |-> state]
    ELSE IF msg.Sign1.Di = Identity \/ msg.Sign1.Ei = Identity
         THEN [res |-> "error", state |-> state]
    ELSE IF msg.From \notin DOMAIN state.Signers THEN [res |-> "panic", state |-> state]
    ELSE [res |-> "ok",
          state |-> [state EXCEPT !.Signers[msg.From].Di = msg.Sign1.Di,
                                  !.Signers[msg.From].Ei = msg.Sign1.Ei]]

RECURSIVE SignRound1Loop(_, _, _)
SignRound1Loop(state, inputMsgs, i) ==
    IF i > Len(inputMsgs) THEN [res |-> "ok", state |-> state]
    ELSE LET r == SignRound1Msg(state, inputMsgs[i])
         IN IF r.res # "ok" THEN r ELSE SignRound1Loop(r.state, inputMsgs, i + 1)

\* Ri = Di + [Pi]Ei of every signer of state.SignerIDs
SignRound1Ri(state) ==
    [state EXCEPT !.Signers =
        [id \in DOMAIN state.Signers |->
            IF SeqContains(state.SignerIDs, id)
            THEN [state.Signers[id] EXCEPT
                    !.Ri = ElAdd(ScalarMult(state.Signers[id].Pi, state.Signers[id].Ei),
                                 state.Signers[id].Di)]
            ELSE state.Signers[id]]]

\* R = sum of Ri over state.SignerIDs
RECURSIVE SumRi(_, _)
SumRi(state, i) ==
    IF i > Len(state.SignerIDs) THEN Identity
    ELSE ElAdd(state.Signers[state.SignerIDs[i]].Ri, SumRi(state, i + 1))

\* the partial signature z = d + e * rho + (lambda * s) * c
SignRound1ZiNoNonce(state, c) ==
    ScAdd(ScMul(state.E, state.Signers[state.SelfID].Pi),
          ScMul(state.SecretKeyShare, c))

SignRound1Zi(state, c) ==
    ScAdd(ScAdd(ScMul(state.E, state.Signers[state.SelfID].Pi),
                ScMul(state.SecretKeyShare, c)),
          state.D)

\* SignRound1(state, inputMsgs): [res, msg, state]; there is no check of the
\* message type, of the set of senders or of the round the state is in
SignRound1(state, inputMsgs) ==
    LET r == SignRound1Loop(state, inputMsgs, 1)
    IN IF r.res # "ok" THEN [res |-> r.res, msg |-> NoMsg, state |-> r.state]
       ELSE LET st1 == SignRound1Ri(computeRhos(r.state))
                R == SumRi(st1, 1)
                c == ComputeChallenge(R, st1.GroupKey, st1.Message)
                z == SignRound1Zi(st1, c)
                st2 == [st1 EXCEPT !.R = R, !.C = c, !.Signers[st1.SelfID].Zi = z]
            IN [res |-> "ok", msg |-> NewSign2(st2.SelfID, z), state |-> st2]

RECURSIVE messages_SignRound1Loop(_, _, _)
messages_SignRound1Loop(state, inputMsgs, i) ==
    IF i > Len(inputMsgs) THEN [res |-> "ok", state |-> state]
    ELSE LET r == messages_SignRound1Msg(state, inputMsgs[i])
         IN IF r.res # "ok" THEN r
            ELSE messages_SignRound1Loop(r.state, inputMsgs, i + 1)

\* messages.SignRound1(state, inputMsgs): [res, msg, state]; after the loop
\* it computes what SignRound1 computes (its Parties are the Signers here)
messages_SignRound1(state, inputMsgs) ==
    LET r == messages_SignRound1Loop(state, inputMsgs, 1)
    IN IF r.res # "ok" THEN [res |-> r.res, msg |-> NoMsg, state |-> r.state]
       ELSE LET st1 == SignRound1Ri(computeRhos(r.state))
                R == SumRi(st1, 1)
                c == ComputeChallenge(R, st1.GroupKey, st1.Message)
                z == SignRound1Zi(st1, c)
                st2 == [st1 EXCEPT !.R = R, !.C = c, !.Signers[st1.SelfID].Zi = z]
            IN [res |-> "ok", msg |-> NewSign2(st2.SelfID, z), state |-> st2]

\* one Sign2 message of the SignRound2 loop: [res, state]
SignRound2MsgNoShareCheck(state, msg) ==
    IF msg.From = state.SelfID THEN [res |-> "ok", state |-> state]
    ELSE IF msg.From \notin DOMAIN state.Signers THEN [res |-> "error", state |-> state]
    ELSE IF msg.Sign2.nil THEN [res |-> "panic", state |-> state]
    ELSE [res |-> "ok",
          state |-> [state EXCEPT !.Signers[msg.From].Zi = msg.Sign2.Zi]]

SignRound2Msg(state, msg) ==
    IF msg.From = state.SelfID THEN [res |-> "ok", state |-> state]
    ELSE IF msg.From \notin DOMAIN state.Signers THEN [res |-> "error", state |-> state]
    ELSE IF msg.Sign2.nil THEN [res |-> "panic", state |-> state]
    ELSE LET otherParty == state.Signers[msg.From]
             RPrime == ElAdd(ScalarBaseMult(msg.Sign2.Zi),
                             ScalarMult(state.C, ElNeg(otherParty.Public)))
         IN IF RPrime # otherParty.Ri THEN [res |-> "error", state |-> state]
            ELSE [res |-> "ok",
                  state |-> [state EXCEPT !.Signers[msg.From].Zi = msg.Sign2.Zi]]

RECURSIVE SignRound2Loop(_, _, _)
SignRound2Loop(state, inputMsgs, i) ==
    IF i > Len(inputMsgs) THEN [res |-> "ok", state |-> state]
    ELSE LET r == SignRound2Msg(state, inputMsgs[i])
         IN IF r.res # "ok" THEN r ELSE SignRound2Loop(r.state, inputMsgs, i + 1)

\* S = sum of Zi over the rows of ids (a set)
RECURSIVE SumZi(_, _)
SumZi(state, ids) ==
    IF ids = {} THEN Zero
    ELSE LET id == CHOOSE x \in ids : TRUE
         IN ScAdd(state.Signers[id].Zi, SumZi(state, ids \ {id}))

\* SignRound2(state, inputMsgs): [res, sig, state]
SignRound2NoVerify(state, inputMsgs) ==
    LET r == SignRound2Loop(state, inputMsgs, 1)
        sig == [nil |-> FALSE, R |-> r.state.R, S |-> SumZi(r.state, DOMAIN r.state.Signers)]
    IN IF r.res # "ok" THEN [res |-> r.res, sig |-> NoSignature, state |-> r.state]
       ELSE [res |-> "ok", sig |-> sig, state |-> r.state]

SignRound2OwnShareDropped(state, inputMsgs) ==
    LET r == SignRound2Loop(state, inputMsgs, 1)
        sig == [nil |-> FALSE, R |-> r.state.R,
                S |-> SumZi(r.state, DOMAIN r.state.Signers \ {r.state.SelfID})]
    IN IF r.res # "ok" THEN [res |-> r.res, sig |-> NoSignature, state |-> r.state]
       ELSE [res |-> "ok", sig |-> sig, state |-> r.state]

SignRound2(state, inputMsgs) ==
    LET r == SignRound2Loop(state, inputMsgs, 1)
        sig == [nil |-> FALSE, R |-> r.state.R, S |-> SumZi(r.state, DOMAIN r.state.Signers)]
    IN IF r.res # "ok" THEN [res |-> r.res, sig |-> NoSignature, state |-> r.state]
       ELSE IF ~Verify(r.state.GroupKey, r.state.Message, sig)
            THEN [res |-> "error", sig |-> NoSignature, state |-> r.state]
       ELSE [res |-> "ok", sig |-> sig, state |-> r.state]

\* ------------------------------------------------------------------------
\* The parties and their host
\* ------------------------------------------------------------------------

VARIABLES
    cfg,      \* <<N, T>> of the key generation
    victim,   \* the party whose host delivers arbitrary batches (0: none)
    calls,    \* number of round calls the victim's host has made
    kst,      \* kst[p]: the keygen State object of party p
    kpc,      \* kpc[p]: outcome of the last keygen call of party p's host
    kg1,      \* kg1[p]: the KeyGen1 message returned by p's Round0
    kg2,      \* kg2[p]: the KeyGen2 messages returned by p's Round1
    kout,     \* kout[p]: the Public and SecretShare returned by p's Round2
    klast,    \* klast[p]: what the batches of p's last round calls looked like
    signerIDs, \* the signer IDs of the signing session, in the order given
    message,  \* the message of the signing session
    sst,      \* sst[p]: the SignerState object of signer p
    spc,      \* spc[p]: outcome of the last signing call of p's host
    s1,       \* s1[p]: the Sign1 message returned by p's SignInit
    s2,       \* s2[p]: the Sign2 message returned by p's last SignRound1
    sig,      \* sig[p]: the signature returned by p's SignRound2
    issued,   \* issued[p]: the partial signatures p's SignRound1 calls returned
    slast,    \* slast[p]: what the batches of p's last signing calls looked like
    files     \* files[p]: what the host of p has written to the files named by
              \* --output and --state

kvars == <<cfg, victim, calls, kst, kpc, kg1, kg2, kout, klast>>

svars == <<signerIDs, message, sst, spc, s1, s2, sig, issued, slast, files>>

\* a file that was never written
NoFile == [kind |-> "none", data |-> <<>>]

NoFiles == [output |-> NoFile, state |-> NoFile]

N == cfg[1]
T == cfg[2]
Active == 1 .. N

NoOutput == [pub |-> NoPublic, sec |-> NoSecretShare]

\* what the batches of the last Round1 and Round2 calls looked like: whether
\* two messages of the batch had the same sender other than the receiver,
\* whether an expected sender had no message in it, whether a message of
\* another party carried a proof or a share that does not verify
NoBatch ==
    [dup1 |-> FALSE, missing1 |-> FALSE, dup2 |-> FALSE, missing2 |-> FALSE,
     bad1 |-> FALSE, bad2 |-> FALSE]

Senders(batch) == {batch[i].From : i \in DOMAIN batch}

DupSenders(batch, self) ==
    \E i, j \in DOMAIN batch :
        i < j /\ batch[i].From = batch[j].From /\ batch[i].From # self

Missing(batch, expected) == ~(expected \subseteq Senders(batch))

\* a KeyGen1 message of another party whose proof does not verify for the
\* sender, the constant term of the message's commitments and the zero context
BadProof(msg, self) ==
    /\ msg.From # self
    /\ msg.Type = MessageTypeKeyGen1
    /\ ~msg.KeyGen1.nil
    /\ ~msg.KeyGen1.Proof.nil
    /\ ~SchnorrVerify(msg.KeyGen1.Proof, msg.From,
                      ExpConstant(msg.KeyGen1.Commitments), ZeroCtx)

\* a KeyGen2 message of another party whose share does not match the
\* commitments stored for the sender
BadShare(state, msg) ==
    /\ msg.From # state.SelfID
    /\ msg.Type = MessageTypeKeyGen2
    /\ ~msg.KeyGen2.nil
    /\ MapHas(state.Commitments, msg.From)
    /\ ScalarBaseMult(msg.KeyGen2.Share)
           # ExpEvaluate(state.Commitments.m[msg.From], IDScalar(state.SelfID))

\* the messages of a function of parties, in ascending order of the party
MsgsOf(f, S) == LET ids == SortedSeq(S) IN [i \in DOMAIN ids |-> f[ids[i]]]

\* the KeyGen2 message from q addressed to p, among those q's Round1 returned
KG2To(q, p) == LET i == CHOOSE i \in DOMAIN kg2[q] : kg2[q][i].To = p IN kg2[q][i]

\* what the batches of the last SignRound1 and SignRound2 calls looked like:
\* whether a Sign1 message of another signer carried the identity, whether a
\* Sign2 message of another signer carried a share that does not verify
NoSignBatch == [ident1 |-> FALSE, bad2 |-> FALSE]

\* a Sign1 message of another signer with Di or Ei the identity
IdentityCommitment(msg, self) ==
    /\ msg.From # self
    /\ ~msg.Sign1.nil
    /\ (msg.Sign1.Di = Identity \/ msg.Sign1.Ei = Identity)

\* a Sign2 message of another signer whose share z has z * B - c * public
\* other than the Ri the state holds for the sender
BadPartial(state, msg) ==
    /\ msg.From # state.SelfID
    /\ msg.From \in DOMAIN state.Signers
    /\ ~msg.Sign2.nil
    /\ ElAdd(ScalarBaseMult(msg.Sign2.Zi),
             ScalarMult(state.C, ElNeg(state.Signers[msg.From].Public)))
           # state.Signers[msg.From].Ri

KeygenInitVars ==
    /\ victim = 0
    /\ calls = 0
    /\ kst = [p \in Parties |-> NoState]
    /\ kpc = [p \in Parties |-> "none"]
    /\ kg1 = [p \in Parties |-> NoMsg]
    /\ kg2 = [p \in Parties |-> <<>>]
    /\ kout = [p \in Parties |-> NoOutput]
    /\ klast = [p \in Parties |-> NoBatch]

SignIdleVars ==
    /\ signerIDs = <<>>
    /\ message = 0
    /\ sst = [p \in Parties |-> NoSignerState]
    /\ spc = [p \in Parties |-> "none"]
    /\ s1 = [p \in Parties |-> NoMsg]
    /\ s2 = [p \in Parties |-> NoMsg]
    /\ sig = [p \in Parties |-> NoSignature]
    /\ issued = [p \in Parties |-> {}]
    /\ slast = [p \in Parties |-> NoSignBatch]
    /\ files = [p \in Parties |-> NoFiles]

\* the state file of a party: what the host writes after a round is what it
\* reads before the next
StateFile(state) == StateUnmarshalJSON(StateMarshalJSON(state))

\* the host of p runs the init command: Round0(p, N, T), then the state goes
\* to the state file
KeygenInit(p) ==
    /\ p \in Active
    /\ kpc[p] = "none"
    /\ \E rnd \in [0 .. T -> 0 .. MaxCoef], k \in ProofNonces :
          LET r == Round0(p, N, T, rnd, k)
          IN /\ kst' = [kst EXCEPT ![p] = StateFile(r.state)]
             /\ kg1' = [kg1 EXCEPT ![p] = r.msg]
             /\ kpc' = [kpc EXCEPT ![p] = IF r.res = "ok" THEN "init" ELSE r.res]
    /\ UNCHANGED <<cfg, victim, calls, kg2, kout, klast>>
    /\ UNCHANGED svars

\* Round1 of p on a batch; the state file is written when the round succeeded
DoRound1(p, batch) ==
    LET r == Round1(kst[p], batch)
    IN /\ kst' = [kst EXCEPT ![p] = IF r.res = "ok" THEN StateFile(r.state) ELSE r.state]
       /\ kg2' = [kg2 EXCEPT ![p] = r.msgs]
       /\ kpc' = [kpc EXCEPT ![p] = IF r.res = "ok" THEN "r1" ELSE r.res]
       /\ klast' = [klast EXCEPT ![p].dup1 = DupSenders(batch, p),
                                 ![p].missing1 = Missing(batch, Active \ {p}),
                                 ![p].bad1 = \E i \in DOMAIN batch : BadProof(batch[i], p)]
       /\ UNCHANGED <<cfg, victim, kg1, kout>>

\* Round2 of p on a batch
DoRound2(p, batch) ==
    LET r == Round2(kst[p], batch)
    IN /\ kst' = [kst EXCEPT ![p] = r.state]
       /\ kout' = [kout EXCEPT ![p] = [pub |-> r.pub, sec |-> r.sec]]
       /\ kpc' = [kpc EXCEPT ![p] = IF r.res = "ok" THEN "done" ELSE r.res]
       /\ klast' = [klast EXCEPT ![p].dup2 = DupSenders(batch, p),
                                 ![p].missing2 = Missing(batch, Active \ {p}),
                                 ![p].bad2 = \E i \in DOMAIN batch : BadShare(kst[p], batch[i])]
       /\ UNCHANGED <<cfg, victim, kg1, kg2>>

\* the host of p calls Round1 on the KeyGen1 messages of all N parties
KeygenRound1(p) ==
    /\ p \in Active
    /\ kpc[p] = "init"
    /\ \A q \in Active : kpc[q] # "none"
    /\ DoRound1(p, MsgsOf(kg1, Active))
    /\ UNCHANGED calls
    /\ UNCHANGED svars

\* the host of p calls Round2 on the N-1 KeyGen2 messages addressed to p
KeygenRound2(p) ==
    /\ p \in Active
    /\ kpc[p] = "r1"
    /\ \A q \in Active : kpc[q] \in {"r1", "done"}
    /\ DoRound2(p, MsgsOf([q \in Active \ {p} |-> KG2To(q, p)], Active \ {p}))
    /\ UNCHANGED calls
    /\ UNCHANGED svars

Init ==
    /\ cfg \in Configs
    /\ KeygenInitVars
    /\ SignIdleVars

Next ==
    \E p \in Parties :
        \/ KeygenInit(p)
        \/ KeygenRound1(p)
        \/ KeygenRound2(p)

vars == <<kvars, svars>>

Spec == Init /\ [][Next]_vars

\* ------------------------------------------------------------------------
\* Properties of the key generation
\* ------------------------------------------------------------------------

AllDone == \A p \in Active : kpc[p] = "done"

\* C1: in an honest key generation the Public returned by Round2 is the same
\* at every party: the same group key, the same party IDs, the same share of
\* every party.
C1_SamePublic ==
    \A p, q \in Active :
        (kpc[p] = "done" /\ kpc[q] = "done") =>
            /\ kout[p].pub.GroupKey = kout[q].pub.GroupKey
            /\ kout[p].pub.PartyIDs = kout[q].pub.PartyIDs
            /\ \A id \in Active : kout[p].pub.Shares[id] = kout[q].pub.Shares[id]

C1_Witness ==
    /\ AllDone
    /\ N = 3
    /\ \E p \in Active : kout[p].pub.GroupKey # Identity

\* sum over i in ids (a sequence) of Lagrange(i, ids) * secret of i
RECURSIVE Interpolate(_, _, _)
Interpolate(ids, secrets, i) ==
    IF i > Len(ids) THEN 0
    ELSE ScAdd(ScMul(Lagrange(ids[i], ids).value, secrets[ids[i]]),
               Interpolate(ids, secrets, i + 1))

Nonces == {2, 5}

\* the messages signed
Messages == {1}

\* a key generation run to its end by honest hosts, every party with its own
\* coefficients rnds[p]: [p |-> what Round2 returned to p]
HonestKeygen(n, t, rnds) ==
    LET ids == 1 .. n
        r0 == [p \in ids |-> Round0(p, n, t, rnds[p], CHOOSE k \in ProofNonces : TRUE)]
        batch1 == [i \in ids |-> r0[i].msg]
        r1 == [p \in ids |-> Round1(StateFile(r0[p].state), batch1)]
        to(q, p) == LET i == CHOOSE i \in DOMAIN r1[q].msgs : r1[q].msgs[i].To = p
                    IN r1[q].msgs[i]
        batch2(p) == LET from == SortedSeq(ids \ {p})
                     IN [i \in DOMAIN from |-> to(from[i], p)]
    IN [p \in ids |-> Round2(StateFile(r1[p].state), batch2(p))]

\* the coefficients of the parties of the key generation number seed
SeedCoefficients(n, t, seed) ==
    [p \in 1 .. n |-> [k \in 0 .. t |-> (seed + p + k) % (MaxCoef + 1)]]

\* the keygen variables after the honest key generation number seed
KeygenDoneVars(seed) ==
    LET out == HonestKeygen(N, T, SeedCoefficients(N, T, seed))
    IN /\ kst = [p \in Parties |-> IF p \in Active THEN out[p].state ELSE NoState]
       /\ kpc = [p \in Parties |-> IF p \in Active THEN "done" ELSE "none"]
       /\ kg1 = [p \in Parties |-> NoMsg]
       /\ kg2 = [p \in Parties |-> <<>>]
       /\ kout = [p \in Parties |->
                    IF p \in Active THEN [pub |-> out[p].pub, sec |-> out[p].sec]
                    ELSE NoOutput]
       /\ klast = [p \in Parties |-> NoBatch]

\* the sequences of distinct IDs of S, of every length from 1
RECURSIVE DistinctSeqs(_)
DistinctSeqs(S) ==
    {<<>>} \cup UNION {{<<x>> \o rest : rest \in DistinctSeqs(S \ {x})} : x \in S}

SignerSeqs(S) == DistinctSeqs(S) \ {<<>>}

SignerSet == SeqToSet(signerIDs)

\* the messages of the signers, in the order of signerIDs
SignBatch(f) == [i \in DOMAIN signerIDs |-> f[signerIDs[i]]]

\* SignInit of p with the signer IDs and message of the session, p's own key
\* generation output and the sampled nonces d, e
DoSignInit(p, d, e) ==
    LET r == SignInit(signerIDs, kout[p].sec, kout[p].pub, message, d, e)
    IN /\ sst' = [sst EXCEPT ![p] = r.state]
       /\ s1' = [s1 EXCEPT ![p] = r.msg]
       /\ spc' = [spc EXCEPT ![p] = IF r.res = "ok" THEN "init" ELSE r.res]
       /\ UNCHANGED <<signerIDs, message, s2, sig, issued, slast, files>>
       /\ UNCHANGED kvars

\* the host of p runs the init command
SignerInit(p) ==
    /\ p \in Active
    /\ spc[p] = "none"
    /\ \E d, e \in Nonces : DoSignInit(p, d, e)

\* SignRound1 of p on a batch
DoSignRound1(p, batch) ==
    LET r == SignRound1(sst[p], batch)
    IN /\ sst' = [sst EXCEPT ![p] = r.state]
       /\ s2' = [s2 EXCEPT ![p] = r.msg]
       /\ spc' = [spc EXCEPT ![p] = IF r.res = "ok" THEN "r1" ELSE r.res]
       /\ issued' = [issued EXCEPT ![p] =
                        IF r.res = "ok" THEN @ \cup {r.msg.Sign2.Zi} ELSE @]
       /\ slast' = [slast EXCEPT ![p].ident1 =
                        \E i \in DOMAIN batch : IdentityCommitment(batch[i], p)]
       /\ UNCHANGED <<signerIDs, message, s1, sig, files>>
       /\ UNCHANGED <<cfg, victim, kst, kpc, kg1, kg2, kout, klast>>

\* SignRound2 of p on a batch
DoSignRound2(p, batch) ==
    LET r == SignRound2(sst[p], batch)
    IN /\ sst' = [sst EXCEPT ![p] = r.state]
       /\ sig' = [sig EXCEPT ![p] = r.sig]
       /\ spc' = [spc EXCEPT ![p] = IF r.res = "ok" THEN "done" ELSE r.res]
       /\ slast' = [slast EXCEPT ![p].bad2 =
                        \E i \in DOMAIN batch : BadPartial(sst[p], batch[i])]
       /\ UNCHANGED <<signerIDs, message, s1, s2, issued, files>>
       /\ UNCHANGED <<cfg, victim, kst, kpc, kg1, kg2, kout, klast>>

\* the host of p calls SignRound1 on the Sign1 messages of all signers
SignerRound1(p) ==
    /\ p \in SignerSet
    /\ spc[p] = "init"
    /\ \A q \in SignerSet : s1[q] # NoMsg
    /\ DoSignRound1(p, SignBatch(s1))
    /\ UNCHANGED calls

\* the host of p calls SignRound2 on the Sign2 messages of all signers
SignerRound2(p) ==
    /\ p \in SignerSet
    /\ spc[p] = "r1"
    /\ \A q \in SignerSet : s2[q] # NoMsg
    /\ DoSignRound2(p, SignBatch(s2))
    /\ UNCHANGED calls

InitSign ==
    /\ cfg \in Configs
    /\ victim = 0
    /\ calls = 0
    /\ \E seed \in 0 .. MaxCoef : KeygenDoneVars(seed)
    /\ signerIDs \in SignerSeqs(Active)
    /\ message \in Messages
    /\ sst = [p \in Parties |-> NoSignerState]
    /\ spc = [p \in Parties |-> "none"]
    /\ s1 = [p \in Parties |-> NoMsg]
    /\ s2 = [p \in Parties |-> NoMsg]
    /\ sig = [p \in Parties |-> NoSignature]
    /\ issued = [p \in Parties |-> {}]
    /\ slast = [p \in Parties |-> NoSignBatch]
    /\ files = [p \in Parties |-> NoFiles]

NextSign ==
    \E p \in Parties :
        \/ SignerInit(p)
        \/ SignerRound1(p)
        \/ SignerRound2(p)

SpecSign == InitSign /\ [][NextSign]_vars

\* ------------------------------------------------------------------------
\* One signer whose host delivers batches of its own choice
\* ------------------------------------------------------------------------

\* the longest batch such a host delivers
MaxBatch == 2

\* the number of round calls such a host makes
MaxCalls == 2

\* the sequences over S of length at most n
BoundedSeqs(S, n) == UNION {[1 .. k -> S] : k \in 0 .. n}

\* the nonce the signers other than the victim sampled
OtherNonce == CHOOSE d \in Nonces : TRUE

\* the signer whose messages the host also delivers altered
Altered == CHOOSE q \in SignerSet \ {victim} : \A x \in SignerSet \ {victim} : q <= x

\* the Sign1 message of another signer with the identity as Di, and the one
\* with the identity as Ei
IdentityDi == NewSign1(Altered, Identity, s1[Altered].Sign1.Ei)
IdentityEi == NewSign1(Altered, s1[Altered].Sign1.Di, Identity)

\* the Sign1 messages the host can put in a batch: those the signers sent,
\* one of another signer with other commitments, and one with the identity
Sign1Pool ==
    {s1[q] : q \in SignerSet}
        \cup {NewSign1(Altered, ScalarBaseMult(1), ScalarBaseMult(1))}
        \cup {IdentityDi}

\* the Sign2 messages the host can put in a batch: those the other signers
\* sent, one of another signer with another share, and the last one the
\* victim's own SignRound1 returned
Sign2Pool ==
    {s2[q] : q \in SignerSet \ {victim}}
        \cup {NewSign2(Altered, ScAdd(s2[Altered].Sign2.Zi, 1))}
        \cup ({s2[victim]} \ {NoMsg})

SignersReady == \A q \in SignerSet \ {victim} : spc[q] = "r1"

InitSignAdv ==
    /\ cfg \in Configs
    /\ calls = 0
    /\ KeygenDoneVars(0)
    /\ signerIDs \in {SortedSeq(S) : S \in {X \in SUBSET Active : Cardinality(X) >= 2}}
    /\ message \in Messages
    /\ victim \in SignerSet
    /\ sst = [p \in Parties |-> NoSignerState]
    /\ spc = [p \in Parties |-> "none"]
    /\ s1 = [p \in Parties |-> NoMsg]
    /\ s2 = [p \in Parties |-> NoMsg]
    /\ sig = [p \in Parties |-> NoSignature]
    /\ issued = [p \in Parties |-> {}]
    /\ slast = [p \in Parties |-> NoSignBatch]
    /\ files = [p \in Parties |-> NoFiles]

\* the host of a signer runs the init command
AdvSignerInit(p) ==
    /\ p \in SignerSet
    /\ spc[p] = "none"
    /\ \E d, e \in (IF p = victim THEN Nonces ELSE {OtherNonce}) : DoSignInit(p, d, e)

\* the host of a signer other than the victim calls SignRound1 on the Sign1
\* messages of all signers
AdvSignerRound1(p) ==
    /\ p # victim
    /\ SignerRound1(p)

\* the host of the victim calls SignRound1 on a batch of its choice
AdvSignRound1 ==
    /\ SignersReady
    /\ spc[victim] # "none"
    /\ calls < MaxCalls
    /\ \E batch \in BoundedSeqs(Sign1Pool, MaxBatch) : DoSignRound1(victim, batch)
    /\ calls' = calls + 1

\* the host of the victim calls SignRound2 on a batch of its choice
AdvSignRound2 ==
    /\ SignersReady
    /\ spc[victim] # "none"
    /\ calls < MaxCalls
    /\ \E batch \in BoundedSeqs(Sign2Pool, MaxBatch) : DoSignRound2(victim, batch)
    /\ calls' = calls + 1

NextSignAdv ==
    \/ \E p \in Parties : AdvSignerInit(p) \/ AdvSignerRound1(p)
    \/ AdvSignRound1
    \/ AdvSignRound2

SpecSignAdv == InitSignAdv /\ [][NextSignAdv]_vars

\* ------------------------------------------------------------------------
\* One key generation party whose host delivers batches of its own choice
\* ------------------------------------------------------------------------

\* the party whose messages the host also delivers altered
AlteredParty == CHOOSE q \in Active \ {victim} : \A x \in Active \ {victim} : q <= x

\* the KeyGen1 message of a party with the constant term of its commitments
\* replaced after the proof was made
TamperedKeyGen1(msg) ==
    [msg EXCEPT !.KeyGen1.Commitments[0] = ElAdd(@, ScalarBaseMult(1))]

\* the KeyGen1 messages the host can put in a batch: those of all parties, and
\* one of another party with its constant term replaced
KeyGen1Pool == {kg1[q] : q \in Active} \cup {TamperedKeyGen1(kg1[AlteredParty])}

\* the KeyGen2 messages the host can put in a batch: those the other parties
\* addressed to the victim, one of another party with another share, and
\* those the victim's own Round1 returned
KeyGen2Pool ==
    {KG2To(q, victim) : q \in Active \ {victim}}
        \cup {NewKeyGen2(AlteredParty, victim,
                         ScAdd(KG2To(AlteredParty, victim).KeyGen2.Share, 1))}
        \cup SeqToSet(kg2[victim])

\* every party has run Round0 and written its state file, and every party but
\* the victim Round1 on the KeyGen1 messages of all parties
InitKeygenAdv ==
    /\ cfg \in Configs
    /\ victim \in Active
    /\ calls = 0
    /\ \E rnd \in [0 .. T -> 0 .. MaxCoef] :
          LET rnds == [SeedCoefficients(N, T, 0) EXCEPT ![victim] = rnd]
              r0 == [p \in Active |->
                       Round0(p, N, T, rnds[p], CHOOSE k \in ProofNonces : TRUE)]
              batch == [i \in Active |-> r0[i].msg]
              r1 == [p \in Active |-> Round1(StateFile(r0[p].state), batch)]
          IN /\ kst = [p \in Parties |->
                         IF p = victim THEN StateFile(r0[p].state)
                         ELSE IF p \in Active THEN StateFile(r1[p].state) ELSE NoState]
             /\ kpc = [p \in Parties |->
                         IF p = victim THEN "init"
                         ELSE IF p \in Active THEN "r1" ELSE "none"]
             /\ kg1 = [p \in Parties |-> IF p \in Active THEN r0[p].msg ELSE NoMsg]
             /\ kg2 = [p \in Parties |->
                         IF p \in Active \ {victim} THEN r1[p].msgs ELSE <<>>]
    /\ kout = [p \in Parties |-> NoOutput]
    /\ klast = [p \in Parties |-> NoBatch]
    /\ SignIdleVars

\* the host of the victim calls Round1 on a batch of its choice
AdvRound1 ==
    /\ kpc[victim] = "init"
    /\ \E batch \in BoundedSeqs(KeyGen1Pool, MaxBatch) : DoRound1(victim, batch)
    /\ calls' = calls + 1
    /\ UNCHANGED svars

\* the host of the victim calls Round2 on a batch of its choice
AdvRound2 ==
    /\ kpc[victim] = "r1"
    /\ \E batch \in BoundedSeqs(KeyGen2Pool, MaxBatch) : DoRound2(victim, batch)
    /\ calls' = calls + 1
    /\ UNCHANGED svars

NextKeygenAdv == AdvRound1 \/ AdvRound2

SpecKeygenAdv == InitKeygenAdv /\ [][NextKeygenAdv]_vars

\* ------------------------------------------------------------------------
\* Properties of the signing
\* ------------------------------------------------------------------------

\* [S]B = R + [c]A
SignatureEquation(signature, c, groupKey) ==
    ScalarBaseMult(signature.S) = ElAdd(signature.R, ScalarMult(c, groupKey))

AllSigned == \A p \in SignerSet : spc[p] = "done"

C6_SameSignature ==
    \A p, q \in SignerSet :
        (spc[p] = "done" /\ spc[q] = "done") => sig[p] = sig[q]

C6_Witness ==
    /\ AllSigned
    /\ Len(signerIDs) = 3
    /\ signerIDs[1] > signerIDs[2]
    /\ \E p \in SignerSet : ~sig[p].nil /\ sig[p].S # Zero
    /\ \E p, q \in SignerSet : sst[p].D # sst[q].D

\* C7: SignInit called with fewer than T+1 signer IDs returns an error: no
\* state and no Sign1 message.
C7_TooFewSignersRejected ==
    Len(signerIDs) < T + 1 =>
        \A p \in Active :
            /\ spc[p] \in {"none", "error"}
            /\ s1[p] = NoMsg
            /\ sst[p] = NoSignerState

\* C5: for every batch a signer's host delivers to SignRound2, in every state
\* the signer can be in, a signature that SignRound2 returns satisfies
\* S * B = R + c * A with c = H(R || A || m); a call that returns no signature
\* returns an error.
C5_ReturnedSignatureVerifies ==
    /\ \A p \in Parties :
          /\ spc[p] = "done" => ~sig[p].nil
          /\ ~sig[p].nil =>
                SignatureEquation(sig[p],
                                  ComputeChallenge(sig[p].R, kout[p].pub.GroupKey, message),
                                  kout[p].pub.GroupKey)
    /\ victim # 0 =>
          \A batch \in BoundedSeqs(Sign2Pool, MaxBatch) :
              LET r == SignRound2(sst[victim], batch)
              IN IF r.res = "ok"
                 THEN /\ ~r.sig.nil
                      /\ SignatureEquation(r.sig, r.state.C, r.state.GroupKey)
                 ELSE r.res = "error" /\ r.sig.nil

C5_Witness ==
    /\ victim # 0
    /\ spc[victim] = "done"
    /\ Len(signerIDs) = 3
    /\ sig[victim].S # Zero
    /\ sig[victim].R # Identity

\* C8: a second SignRound1 call on the same state with another batch of Sign1
\* messages returns no second partial signature under the same nonces d, e.
C8_OnePartialSignature ==
    \A p \in Parties : Cardinality(issued[p]) <= 1

\* ------------------------------------------------------------------------
\* Properties of the rounds under batches of the host's choice
\* ------------------------------------------------------------------------

\* coefficient-wise sum of the commitments of the parties of ids (a set)
RECURSIVE SumCommitments(_, _)
SumCommitments(own, ids) ==
    IF ids = {} THEN own
    ELSE LET q == CHOOSE x \in ids : TRUE
         IN ExpAdd(SumCommitments(own, ids \ {q}), kg1[q].KeyGen1.Commitments)

\* C9: a round called on a batch with two messages from the same sender
\* returns an error, and a repeated KeyGen1 message is not added twice to
\* commitments_sum.
C9_DuplicateSenderRejected ==
    \A p \in Active :
        /\ klast[p].dup1 => kpc[p] \notin {"r1", "done"}
        /\ klast[p].dup2 => kpc[p] # "done"
        /\ kpc[p] \in {"r1", "done"} =>
              kst[p].CommitmentsSum
                  = SumCommitments(NewPolynomialExponent(kst[p].Polynomial),
                                   DOMAIN kst[p].Commitments.m)

\* C10: when the batch of Round1 or of Round2 lacks the message of an expected
\* party, that round or the following one returns an error, so Round2 returns
\* no Public and no SecretShare.
C10_IncompleteBatchRejected ==
    \A p \in Active :
        kpc[p] = "done" => (~klast[p].missing1 /\ ~klast[p].missing2)

\* C14: Round1 called on a batch in which a KeyGen1 message of another party
\* carries a proof that does not verify for the sender, the constant term of
\* the message's commitments and the zero context returns an error and no
\* KeyGen2 messages.
C14_BadProofRejected ==
    \A p \in Active :
        klast[p].bad1 => (kpc[p] = "error" /\ kg2[p] = <<>>)

C14_Witness ==
    /\ victim # 0
    /\ klast[victim].bad1
    /\ kpc[victim] = "error"
    /\ kg2[victim] = <<>>
    /\ kst[victim].Commitments.m # <<>>

\* C15: Round2 called on a batch in which a KeyGen2 message of another party
\* carries a share sigma with sigma * B other than the value at the own ID of
\* the commitments stored for the sender returns an error, no Public and no
\* SecretShare.
C15_BadShareRejected ==
    \A p \in Active :
        klast[p].bad2 => (kpc[p] = "error" /\ kout[p] = NoOutput)

C15_Witness ==
    /\ victim # 0
    /\ klast[victim].bad2
    /\ ~klast[victim].missing1
    /\ kpc[victim] = "error"
    /\ kout[victim] = NoOutput

\* the victim has a signer state and the other signers have sent their messages
VictimReady == victim # 0 /\ spc[victim] # "none" /\ SignersReady

\* C11: SignRound1 and SignRound2 called on the two orders of the same two
\* messages give the same outcome, the same returned message or signature and
\* the same state.
C11_OrderIrrelevant ==
    VictimReady =>
        /\ \A a, b \in Sign1Pool :
              SignRound1(sst[victim], <<a, b>>) = SignRound1(sst[victim], <<b, a>>)
        /\ \A a, b \in Sign2Pool :
              SignRound2(sst[victim], <<a, b>>) = SignRound2(sst[victim], <<b, a>>)

\* C12: once a signing round call of a signer has returned an error, every
\* later round call on the same state returns an error.
C12_ErrorsAreTerminal ==
    [][\A p \in Parties : spc[p] = "error" => spc'[p] = "error"]_vars

\* C16: SignRound1 called on a batch in which a Sign1 message of another
\* signer has the identity as Di or as Ei returns an error and no Sign2
\* message, and a Sign1 message that SignRound1 accepts leaves no identity in
\* the sender's row.
C16_IdentityRejected ==
    /\ \A p \in Parties : slast[p].ident1 => s2[p] = NoMsg
    /\ VictimReady =>
          \A rest \in BoundedSeqs(Sign1Pool, 1) :
              /\ \A m \in {IdentityDi, IdentityEi} :
                    \A batch \in {<<m>> \o rest, rest \o <<m>>} :
                        LET r == SignRound1(sst[victim], batch)
                        IN r.res = "error" /\ r.msg = NoMsg
              /\ LET r == SignRound1(sst[victim], rest)
                 IN r.res = "ok" =>
                       \A i \in DOMAIN rest :
                           rest[i].From # victim =>
                               /\ r.state.Signers[rest[i].From].Di # Identity
                               /\ r.state.Signers[rest[i].From].Ei # Identity

C16_Witness ==
    /\ victim # 0
    /\ slast[victim].ident1
    /\ spc[victim] = "error"
    /\ s2[victim] = NoMsg
    /\ \E q \in SignerSet \ {victim} : sst[victim].Signers[q].Di # Identity

\* C17: SignRound2 called on a batch in which a Sign2 message of another
\* signer carries a share z with z * B - c * public other than the Ri that
\* SignRound1 computed for the sender returns an error and no signature.
C17_BadPartialRejected ==
    /\ \A p \in Parties : slast[p].bad2 => sig[p] = NoSignature
    /\ VictimReady =>
          \A batch \in BoundedSeqs(Sign2Pool, MaxBatch) :
              (\E i \in DOMAIN batch : BadPartial(sst[victim], batch[i])) =>
                  LET r == SignRound2(sst[victim], batch)
                  IN r.res = "error" /\ r.sig = NoSignature

C17_Witness ==
    /\ victim # 0
    /\ slast[victim].bad2
    /\ spc[victim] = "error"
    /\ sig[victim] = NoSignature
    /\ issued[victim] # {}
    /\ \A q \in SignerSet : sst[victim].Signers[q].Di = s1[q].Sign1.Di

\* C13: after Round2 has returned to a party, every coefficient of the
\* polynomial and the secret accumulator of its state are zero; after
\* SignRound2 has returned to a signer, the nonces d, e and the secret key
\* share of its state are zero.
C13_SecretsZeroized ==
    /\ \A p \in Active :
          kpc[p] = "done" =>
              /\ \A k \in DOMAIN kst[p].Polynomial : kst[p].Polynomial[k] = Zero
              /\ kst[p].Secret = Zero
    /\ \A p \in Parties :
          spc[p] = "done" =>
              (sst[p].D = Zero /\ sst[p].E = Zero /\ sst[p].SecretKeyShare = Zero)

\* ------------------------------------------------------------------------
\* Round0 called with any party ID, number of parties and threshold
\* ------------------------------------------------------------------------

\* the numbers of parties and thresholds Round0 is called with
ArgConfigs == {<<n, t>> : n \in Parties, t \in 0 .. (Cardinality(Parties) - 1)}

InitKeygenArgs ==
    /\ cfg \in ArgConfigs
    /\ KeygenInitVars
    /\ SignIdleVars

\* Round0(p, N, T) is called for any party ID p, also one above N; what it
\* returns goes to the message file and the state file
KeygenInitArgs(p) ==
    /\ kpc[p] = "none"
    /\ \E rnd \in [0 .. T -> 0 .. MaxCoef], k \in ProofNonces :
          LET r == Round0(p, N, T, rnd, k)
          IN /\ kst' = [kst EXCEPT ![p] = IF r.res = "ok" THEN StateFile(r.state) ELSE NoState]
             /\ kg1' = [kg1 EXCEPT ![p] = IF r.res = "ok" THEN r.msg ELSE NoMsg]
             /\ kpc' = [kpc EXCEPT ![p] = IF r.res = "ok" THEN "init" ELSE r.res]
    /\ UNCHANGED <<cfg, victim, calls, kg2, kout, klast>>
    /\ UNCHANGED svars

NextKeygenArgs == \E p \in Parties : KeygenInitArgs(p)

SpecKeygenArgs == InitKeygenArgs /\ [][NextKeygenArgs]_vars

\* C18: Round0(self_id, N, T) called with T >= N, with T = 0 or with
\* self_id > N returns an error, no state and no KeyGen1 message.
C18_BadArgumentsRejected ==
    \A p \in Parties :
        (kpc[p] # "none" /\ (T >= N \/ T = 0 \/ p > N)) =>
            (kpc[p] = "error" /\ kst[p] = NoState /\ kg1[p] = NoMsg)

\* ------------------------------------------------------------------------
\* SignInit called with any signer IDs and a Public that may lack a share
\* ------------------------------------------------------------------------

\* the IDs a list of signer IDs can hold: 0 and every party ID of the largest
\* key generation
SignerArgIDs == {0} \cup Parties

\* the Public of a shares file in which the entry of party id is absent
WithoutShare(pub, id) ==
    [pub EXCEPT !.Shares = [q \in (DOMAIN pub.Shares) \ {id} |-> pub.Shares[q]]]

\* the key material is that of an honest key generation, with the share of
\* one party absent from the shares files (of none when absent = 0); the
\* signer IDs are any list of distinct IDs
InitSignArgs ==
    /\ cfg \in Configs
    /\ victim = 0
    /\ calls = 0
    /\ \E absent \in {0} \cup Active :
          LET out == HonestKeygen(N, T, SeedCoefficients(N, T, 0))
          IN /\ kst = [p \in Parties |-> IF p \in Active THEN out[p].state ELSE NoState]
             /\ kout = [p \in Parties |->
                          IF p \in Active
                          THEN [pub |-> WithoutShare(out[p].pub, absent), sec |-> out[p].sec]
                          ELSE NoOutput]
    /\ kpc = [p \in Parties |-> IF p \in Active THEN "done" ELSE "none"]
    /\ kg1 = [p \in Parties |-> NoMsg]
    /\ kg2 = [p \in Parties |-> <<>>]
    /\ klast = [p \in Parties |-> NoBatch]
    /\ signerIDs \in SignerSeqs(SignerArgIDs)
    /\ message \in Messages
    /\ sst = [p \in Parties |-> NoSignerState]
    /\ spc = [p \in Parties |-> "none"]
    /\ s1 = [p \in Parties |-> NoMsg]
    /\ s2 = [p \in Parties |-> NoMsg]
    /\ sig = [p \in Parties |-> NoSignature]
    /\ issued = [p \in Parties |-> {}]
    /\ slast = [p \in Parties |-> NoSignBatch]
    /\ files = [p \in Parties |-> NoFiles]

NextSignArgs == \E p \in Parties : SignerInit(p)

SpecSignArgs == InitSignArgs /\ [][NextSignArgs]_vars

\* the signer IDs and the Public given to p's SignInit break a precondition
BadSignArgs(p) ==
    \/ p \notin SignerSet
    \/ ~(SignerSet \subseteq SeqToSet(kout[p].pub.PartyIDs))
    \/ 0 \in SignerSet
    \/ \E q \in SignerSet : q \notin DOMAIN kout[p].pub.Shares

\* C19: SignInit returns an error, no state and no Sign1 message when the ID
\* of the secret share is not among the signer IDs, when the signer IDs are
\* not a subset of the party IDs of the Public, when they hold the ID 0, or
\* when the Public has no share for one of them.
C19_BadSignArgsRejected ==
    \A p \in Active :
        (spc[p] # "none" /\ BadSignArgs(p)) =>
            (spc[p] = "error" /\ sst[p] = NoSignerState /\ s1[p] = NoMsg)

C19_Witness ==
    \E p, q \in Active :
        /\ spc[p] = "error" /\ p \notin SignerSet
        /\ spc[q] = "error" /\ q \in SignerSet
        /\ SignerSet \subseteq SeqToSet(kout[q].pub.PartyIDs)
        /\ 0 \notin SignerSet
        /\ \E x \in SignerSet : x \notin DOMAIN kout[q].pub.Shares
        /\ sst[q] = NoSignerState /\ s1[q] = NoMsg

\* ------------------------------------------------------------------------
\* The round 1 of the older package, with a host that delivers any batch
\* ------------------------------------------------------------------------

\* messages.SignRound1 of p on a batch
messages_DoSignRound1(p, batch) ==
    LET r == messages_SignRound1(sst[p], batch)
    IN /\ sst' = [sst EXCEPT ![p] = r.state]
       /\ s2' = [s2 EXCEPT ![p] = r.msg]
       /\ spc' = [spc EXCEPT ![p] = IF r.res = "ok" THEN "r1" ELSE r.res]
       /\ issued' = [issued EXCEPT ![p] =
                        IF r.res = "ok" THEN @ \cup {r.msg.Sign2.Zi} ELSE @]
       /\ slast' = [slast EXCEPT ![p].ident1 =
                        \E i \in DOMAIN batch : IdentityCommitment(batch[i], p)]
       /\ UNCHANGED <<signerIDs, message, s1, sig, files>>
       /\ UNCHANGED <<cfg, victim, kst, kpc, kg1, kg2, kout, klast>>

\* a Sign1 message that carries the victim's ID and other commitments
OwnForged == NewSign1(victim, ScalarBaseMult(1), ScalarBaseMult(1))

\* the Sign1 messages the host can put in a batch: those the signers sent
\* and one with the victim's own ID
OwnPool == {s1[q] : q \in SignerSet} \cup {OwnForged}

\* the batch without the messages of the signer itself
WithoutOwn(batch, self) ==
    LET NotOwn(m) == m.From # self IN SelectSeq(batch, NotOwn)

\* the host of a signer other than the victim calls messages.SignRound1 on
\* the Sign1 messages of all signers
messages_SignerRound1(p) ==
    /\ p # victim
    /\ p \in SignerSet
    /\ spc[p] = "init"
    /\ \A q \in SignerSet : s1[q] # NoMsg
    /\ messages_DoSignRound1(p, SignBatch(s1))
    /\ UNCHANGED calls

\* the host of the victim calls messages.SignRound1 on a batch of its choice
messages_AdvSignRound1 ==
    /\ \A q \in SignerSet : s1[q] # NoMsg
    /\ calls < MaxCalls
    /\ \E batch \in BoundedSeqs(OwnPool, MaxBatch) :
          messages_DoSignRound1(victim, batch)
    /\ calls' = calls + 1

NextSignOwn ==
    \/ \E p \in Parties : AdvSignerInit(p) \/ messages_SignerRound1(p)
    \/ messages_AdvSignRound1

SpecSignOwn == InitSignAdv /\ [][NextSignOwn]_vars

\* C20: a message of the batch whose From is the party's own ID is ignored
\* by the round functions: the state of a signer keeps d * B and e * B as
\* its own D and E, and a round 1 call returns on a batch what it returns
\* on the batch without the signer's own messages, in the older package as
\* in the current one.
C20_OwnMessagesIgnored ==
    /\ \A p \in SignerSet :
          spc[p] # "none" =>
              /\ sst[p].Signers[p].Di = ScalarBaseMult(sst[p].D)
              /\ sst[p].Signers[p].Ei = ScalarBaseMult(sst[p].E)
    /\ (\A q \in SignerSet : s1[q] # NoMsg) =>
          \A batch \in BoundedSeqs(OwnPool, MaxBatch) :
              /\ SignRound1(sst[victim], batch)
                    = SignRound1(sst[victim], WithoutOwn(batch, victim))
              /\ messages_SignRound1(sst[victim], batch)
                    = messages_SignRound1(sst[victim], WithoutOwn(batch, victim))

\* ------------------------------------------------------------------------
\* One signer whose host delivers messages of the wrong type or of a sender
\* that is no signer
\* ------------------------------------------------------------------------

\* an ID that is not among the signer IDs of the session
Outsider == CHOOSE id \in 1 .. (Cardinality(Parties) + 1) : id \notin SignerSet

\* the messages the host can put in a round 1 batch: the Sign1 messages of
\* the signers, a Sign2 message of another signer, a Sign2 message with the
\* victim's own ID and a Sign1 message of a sender that is no signer
MalformedPool1 ==
    {s1[q] : q \in SignerSet}
        \cup {NewSign2(Altered, 1), NewSign2(victim, 1)}
        \cup {NewSign1(Outsider, ScalarBaseMult(1), ScalarBaseMult(1))}

\* the messages the host can put in a round 2 batch: the Sign2 messages of
\* the other signers, a Sign1 message of another signer and a Sign2 message
\* of a sender that is no signer
MalformedPool2 ==
    {s2[q] : q \in SignerSet \ {victim}}
        \cup {s1[Altered]}
        \cup {NewSign2(Outsider, 1)}

\* the host of the victim calls SignRound1 on a batch of its choice
MalformedSignRound1 ==
    /\ SignersReady
    /\ spc[victim] # "none"
    /\ calls < MaxCalls
    /\ \E batch \in BoundedSeqs(MalformedPool1, MaxBatch) : DoSignRound1(victim, batch)
    /\ calls' = calls + 1

\* the host of the victim calls SignRound2 on a batch of its choice
MalformedSignRound2 ==
    /\ SignersReady
    /\ spc[victim] # "none"
    /\ calls < MaxCalls
    /\ \E batch \in BoundedSeqs(MalformedPool2, MaxBatch) : DoSignRound2(victim, batch)
    /\ calls' = calls + 1

NextSignMalformed ==
    \/ \E p \in Parties : AdvSignerInit(p) \/ AdvSignerRound1(p)
    \/ MalformedSignRound1
    \/ MalformedSignRound2

SpecSignMalformed == InitSignAdv /\ [][NextSignMalformed]_vars

\* C21: a round function returns an error, and does not crash, when its
\* batch holds a message whose type is not the type of the round, whoever
\* the sender of that message is: SignRound1 on a batch with a message that
\* is no Sign1 message and SignRound2 on a batch with a message that is no
\* Sign2 message.
C21_WrongTypeRejected ==
    VictimReady =>
        /\ \A batch \in BoundedSeqs(MalformedPool1, MaxBatch) :
              (\E i \in DOMAIN batch : batch[i].Type # MessageTypeSign1) =>
                  SignRound1(sst[victim], batch).res = "error"
        /\ \A batch \in BoundedSeqs(MalformedPool2, MaxBatch) :
              (\E i \in DOMAIN batch : batch[i].Type # MessageTypeSign2) =>
                  SignRound2(sst[victim], batch).res = "error"

\* C22: a round function returns an error, and does not crash, when its
\* batch holds a message of a sender it has no row for: SignRound1 and
\* SignRound2 on a batch of messages of the right type of which one comes
\* from a sender outside the signer IDs.
C22_UnknownSenderRejected ==
    VictimReady =>
        /\ \A batch \in BoundedSeqs(MalformedPool1, MaxBatch) :
              (/\ \A i \in DOMAIN batch : batch[i].Type = MessageTypeSign1
               /\ \E i \in DOMAIN batch : batch[i].From \notin SignerSet) =>
                  SignRound1(sst[victim], batch).res = "error"
        /\ \A batch \in BoundedSeqs(MalformedPool2, MaxBatch) :
              (/\ \A i \in DOMAIN batch : batch[i].Type = MessageTypeSign2
               /\ \E i \in DOMAIN batch : batch[i].From \notin SignerSet) =>
                  SignRound2(sst[victim], batch).res = "error"

\* C23: for every state reached through KeygenInit and KeygenRound1,
\* UnmarshalJSON(MarshalJSON(state)) gives a state with the same ID, party
\* IDs, threshold, polynomial, secret accumulator, commitments and
\* commitments sum as the original.
C23_StateRoundTrip ==
    \A p \in Active :
        kpc[p] \in {"init", "r1"} =>
            LET s == kst[p]
                r == StateUnmarshalJSONClamping(StateMarshalJSON(s))
            IN /\ r.SelfID = s.SelfID
               /\ r.PartyIDs = s.PartyIDs
               /\ r.Threshold = s.Threshold
               /\ r.Polynomial = s.Polynomial
               /\ r.Secret = s.Secret
               /\ r.Commitments.m = s.Commitments.m
               /\ r.CommitmentsSum = s.CommitmentsSum

\* ------------------------------------------------------------------------
\* The message files: Message.MarshalJSON and Message.UnmarshalJSON
\* ------------------------------------------------------------------------

\* Scalar.Bytes and Element.Bytes: the number, little endian (two bytes stand
\* for the 32); SetCanonicalBytes refuses a number that is not reduced
ScalarBytes(x) == <<x % 256, x \div 256>>

SetCanonicalBytes(b) ==
    LET x == b[1] + 256 * b[2]
    IN IF Len(b) # 2 \/ x >= Q THEN [err |-> TRUE, value |-> 0]
       ELSE [err |-> FALSE, value |-> x]

\* Exponent.MarshalBinary: the degree, then the degree + 1 points
ExponentMarshalBinary(F) ==
    <<PolyDegree(F)>> \o [i \in 1 .. (PolyDegree(F) + 1) |-> ScalarBytes(F[i - 1])]

\* Exponent.UnmarshalBinary: [err, value]
ExponentUnmarshalBinary(data) ==
    IF Len(data) = 0 \/ Len(data) - 1 # data[1] + 1
    THEN [err |-> TRUE, value |-> <<>>]
    ELSE IF \E k \in 0 .. data[1] : SetCanonicalBytes(data[k + 2]).err
    THEN [err |-> TRUE, value |-> <<>>]
    ELSE [err |-> FALSE,
          value |-> [k \in 0 .. data[1] |-> SetCanonicalBytes(data[k + 2]).value]]

\* Schnorr.MarshalBinary: the commitment M, then the response S
SchnorrMarshalBinary(proof) == <<ScalarBytes(proof.M), ScalarBytes(proof.S)>>

\* Schnorr.UnmarshalBinary: [err, value]
SchnorrUnmarshalBinary(data) ==
    IF Len(data) # 2 \/ SetCanonicalBytes(data[1]).err \/ SetCanonicalBytes(data[2]).err
    THEN [err |-> TRUE, value |-> NilKeyGen1.Proof]
    ELSE [err |-> FALSE,
          value |-> [nil |-> FALSE, M |-> SetCanonicalBytes(data[1]).value,
                     S |-> SetCanonicalBytes(data[2]).value]]

\* Header.MarshalJSON: the type as one byte, From and To as ID bytes
HeaderMarshalJSON(h) ==
    [type |-> <<h.Type>>, from |-> IDBytes(h.From), to |-> IDBytes(h.To)]

\* a JSON member left out by omitempty
Omitted == [present |-> FALSE, v |-> <<>>]

KeyGen1MarshalJSON(m) ==
    [present |-> TRUE,
     v |-> [proof |-> SchnorrMarshalBinary(m.Proof),
            commitments |-> ExponentMarshalBinary(m.Commitments)]]

KeyGen2MarshalJSON(m) == [present |-> TRUE, v |-> [share |-> ScalarBytes(m.Share)]]

Sign1MarshalJSON(m) ==
    [present |-> TRUE, v |-> [di |-> ScalarBytes(m.Di), ei |-> ScalarBytes(m.Ei)]]

Sign2MarshalJSON(m) == [present |-> TRUE, v |-> [zi |-> ScalarBytes(m.Zi)]]

\* Message.MarshalJSON: the header and the payloads that are not nil
MessageMarshalJSON(m) ==
    [header |-> HeaderMarshalJSON(m),
     keygen1 |-> IF m.KeyGen1.nil THEN Omitted ELSE KeyGen1MarshalJSON(m.KeyGen1),
     keygen2 |-> IF m.KeyGen2.nil THEN Omitted ELSE KeyGen2MarshalJSON(m.KeyGen2),
     sign1 |-> IF m.Sign1.nil THEN Omitted ELSE Sign1MarshalJSON(m.Sign1),
     sign2 |-> IF m.Sign2.nil THEN Omitted ELSE Sign2MarshalJSON(m.Sign2)]

\* the UnmarshalJSON of the payloads: [err, value]
KeyGen1UnmarshalJSON(j) ==
    IF ~j.present THEN [err |-> FALSE, value |-> NilKeyGen1]
    ELSE LET proof == SchnorrUnmarshalBinary(j.v.proof)
             comm == ExponentUnmarshalBinary(j.v.commitments)
         IN [err |-> proof.err \/ comm.err,
             value |-> [nil |-> FALSE, Proof |-> proof.value, Commitments |-> comm.value]]

KeyGen2UnmarshalJSON(j) ==
    IF ~j.present THEN [err |-> FALSE, value |-> NilKeyGen2]
    ELSE LET share == SetCanonicalBytes(j.v.share)
         IN [err |-> share.err, value |-> [nil |-> FALSE, Share |-> share.value]]

Sign1UnmarshalJSON(j) ==
    IF ~j.present THEN [err |-> FALSE, value |-> NilSign1]
    ELSE LET di == SetCanonicalBytes(j.v.di)
             ei == SetCanonicalBytes(j.v.ei)
         IN [err |-> di.err \/ ei.err,
             value |-> [nil |-> FALSE, Di |-> di.value, Ei |-> ei.value]]

Sign2UnmarshalJSON(j) ==
    IF ~j.present THEN [err |-> FALSE, value |-> NilSign2]
    ELSE LET zi == SetCanonicalBytes(j.v.zi)
         IN [err |-> zi.err, value |-> [nil |-> FALSE, Zi |-> zi.value]]

MessageUnmarshalJSONNoSign(data) ==
    LET k1 == KeyGen1UnmarshalJSON(data.keygen1)
        k2 == KeyGen2UnmarshalJSON(data.keygen2)
    IN [err |-> k1.err \/ k2.err,
        msg |-> [Type |-> data.header.type[1],
                 From |-> IDFromBytes(data.header.from),
                 To |-> IDFromBytes(data.header.to),
                 KeyGen1 |-> k1.value, KeyGen2 |-> k2.value,
                 Sign1 |-> NilSign1, Sign2 |-> NilSign2]]

\* Message.UnmarshalJSON: [err, msg]
MessageUnmarshalJSON(data) ==
    LET k1 == KeyGen1UnmarshalJSON(data.keygen1)
        k2 == KeyGen2UnmarshalJSON(data.keygen2)
        g1 == Sign1UnmarshalJSON(data.sign1)
        g2 == Sign2UnmarshalJSON(data.sign2)
    IN [err |-> k1.err \/ k2.err \/ g1.err \/ g2.err,
        msg |-> [Type |-> data.header.type[1],
                 From |-> IDFromBytes(data.header.from),
                 To |-> IDFromBytes(data.header.to),
                 KeyGen1 |-> k1.value, KeyGen2 |-> k2.value,
                 Sign1 |-> g1.value, Sign2 |-> g2.value]]

\* a host writes every message it got from a round to a file of its own and
\* reads the files named on its command line into the batch of the next round
FromFiles(batch) ==
    [i \in DOMAIN batch |-> MessageUnmarshalJSON(MessageMarshalJSON(batch[i])).msg]

\* ------------------------------------------------------------------------
\* A whole session, key generation and signing, with the messages in files
\* ------------------------------------------------------------------------

InitFiles ==
    /\ cfg \in Configs
    /\ KeygenInitVars
    /\ signerIDs = SortedSeq(Active)
    /\ message \in Messages
    /\ sst = [p \in Parties |-> NoSignerState]
    /\ spc = [p \in Parties |-> "none"]
    /\ s1 = [p \in Parties |-> NoMsg]
    /\ s2 = [p \in Parties |-> NoMsg]
    /\ sig = [p \in Parties |-> NoSignature]
    /\ issued = [p \in Parties |-> {}]
    /\ slast = [p \in Parties |-> NoSignBatch]
    /\ files = [p \in Parties |-> NoFiles]

\* the init command of key generation, with the coefficients of seed 0
FilesKeygenInit(p) ==
    /\ p \in Active
    /\ kpc[p] = "none"
    /\ \E k \in ProofNonces :
          LET r == Round0(p, N, T, SeedCoefficients(N, T, 0)[p], k)
          IN /\ kst' = [kst EXCEPT ![p] = StateFile(r.state)]
             /\ kg1' = [kg1 EXCEPT ![p] = r.msg]
             /\ kpc' = [kpc EXCEPT ![p] = IF r.res = "ok" THEN "init" ELSE r.res]
    /\ UNCHANGED <<cfg, victim, calls, kg2, kout, klast>>
    /\ UNCHANGED svars

FilesKeygenRound1(p) ==
    /\ p \in Active
    /\ kpc[p] = "init"
    /\ \A q \in Active : kpc[q] # "none"
    /\ DoRound1(p, FromFiles(MsgsOf(kg1, Active)))
    /\ UNCHANGED calls
    /\ UNCHANGED svars

FilesKeygenRound2(p) ==
    /\ p \in Active
    /\ kpc[p] = "r1"
    /\ \A q \in Active : kpc[q] \in {"r1", "done"}
    /\ DoRound2(p, FromFiles(MsgsOf([q \in Active \ {p} |-> KG2To(q, p)], Active \ {p})))
    /\ UNCHANGED calls
    /\ UNCHANGED svars

FilesSignerInit(p) ==
    /\ p \in SignerSet
    /\ kpc[p] = "done"
    /\ spc[p] = "none"
    /\ \E d, e \in Nonces : DoSignInit(p, d, e)

FilesSignerRound1(p) ==
    /\ p \in SignerSet
    /\ spc[p] = "init"
    /\ \A q \in SignerSet : s1[q] # NoMsg
    /\ DoSignRound1(p, FromFiles(SignBatch(s1)))
    /\ UNCHANGED calls

FilesSignerRound2(p) ==
    /\ p \in SignerSet
    /\ spc[p] = "r1"
    /\ \A q \in SignerSet : s2[q] # NoMsg
    /\ DoSignRound2(p, FromFiles(SignBatch(s2)))
    /\ UNCHANGED calls

NextFiles ==
    \E p \in Parties :
        \/ FilesKeygenInit(p)
        \/ FilesKeygenRound1(p)
        \/ FilesKeygenRound2(p)
        \/ FilesSignerInit(p)
        \/ FilesSignerRound1(p)
        \/ FilesSignerRound2(p)

SpecFiles == InitFiles /\ [][NextFiles]_vars

\* the messages the rounds have returned so far
ReturnedMessages ==
    UNION {{kg1[p], s1[p], s2[p]} \cup SeqToSet(kg2[p]) : p \in Parties} \ {NoMsg}

\* C24: for every message of the four types, the broadcast ones with To = 0
\* included, Message.UnmarshalJSON(Message.MarshalJSON(m)) succeeds and gives
\* a message with the same type, From, To and payload.
C24_MessageRoundTrip ==
    \A m \in ReturnedMessages :
        LET r == MessageUnmarshalJSON(MessageMarshalJSON(m))
        IN /\ ~r.err
           /\ r.msg.Type = m.Type /\ r.msg.From = m.From /\ r.msg.To = m.To
           /\ r.msg.KeyGen1 = m.KeyGen1 /\ r.msg.KeyGen2 = m.KeyGen2
           /\ r.msg.Sign1 = m.Sign1 /\ r.msg.Sign2 = m.Sign2

C24_Witness ==
    /\ \A t \in {MessageTypeKeyGen1, MessageTypeKeyGen2, MessageTypeSign1, MessageTypeSign2} :
          \E m \in ReturnedMessages : m.Type = t
    /\ \E m \in ReturnedMessages : m.To = 0
    /\ \E m \in ReturnedMessages : m.To # 0
    /\ \E p \in SignerSet : spc[p] = "done" /\ ~sig[p].nil

\* C25: for a fixed message and a fixed table of (j, D_j, E_j) over the
\* signer IDs, computeRhos gives signer i the same rho_i whichever party
\* computes it and however often it is computed, and all signers of a session
\* hold the same rho_i, the same R and the same challenge c after SignRound1.
C25_SameRhos ==
    /\ \A p \in SignerSet :
          spc[p] \in {"r1", "done"} =>
              /\ \A self, i \in SignerSet :
                    computeRhos([sst[p] EXCEPT !.SelfID = self]).Signers[i].Pi
                        = sst[p].Signers[i].Pi
              /\ computeRhos(computeRhos(sst[p])) = computeRhos(sst[p])
    /\ \A p, q \in SignerSet :
          (spc[p] \in {"r1", "done"} /\ spc[q] \in {"r1", "done"}) =>
              /\ \A i \in SignerSet : sst[p].Signers[i].Pi = sst[q].Signers[i].Pi
              /\ sst[p].R = sst[q].R
              /\ sst[p].C = sst[q].C

C25_Witness ==
    \E p, q \in SignerSet :
        /\ p # q
        /\ spc[p] \in {"r1", "done"} /\ spc[q] \in {"r1", "done"}
        /\ \E i, j \in SignerSet : sst[p].Signers[i].Pi # sst[p].Signers[j].Pi
        /\ sst[p].R # Identity /\ sst[q].C # Zero

\* the orders in which the signer IDs of the session can be listed
SignerOrders == {ids \in SignerSeqs(SignerSet) : Len(ids) = Len(signerIDs)}

\* C26: rho_i, R and c do not depend on the order in which the signer IDs
\* were given to SignInit: a signer that is given the signer IDs of the
\* session in another order, with the same nonces and the same Sign1
\* messages, computes the same rho_i for every i, the same R and the same c.
C26_OrderOfSignerIDs ==
    \A p \in SignerSet :
        spc[p] \in {"r1", "done"} =>
            \A ids \in SignerOrders :
                LET init == SignInit(ids, kout[p].sec, kout[p].pub, message,
                                     sst[p].D, sst[p].E)
                    r == SignRound1(init.state, SignBatch(s1))
                IN /\ r.res = "ok"
                   /\ \A i \in SignerSet :
                         r.state.Signers[i].Pi = sst[p].Signers[i].Pi
                   /\ r.state.R = sst[p].R
                   /\ r.state.C = sst[p].C

\* ------------------------------------------------------------------------
\* Round1 of the second copy of the key generation package
\* ------------------------------------------------------------------------

\* the KeyGen2 messages of the second copy: one for every message of the
\* batch that is not from the party itself, with the KeyGen1 payload of that
\* message attached
RECURSIVE Round1OutOfBatch(_, _, _)
Round1OutOfBatch(state, inputMsgs, i) ==
    IF i > Len(inputMsgs) THEN <<>>
    ELSE IF inputMsgs[i].From = state.SelfID THEN Round1OutOfBatch(state, inputMsgs, i + 1)
    ELSE <<[NewKeyGen2(state.SelfID, inputMsgs[i].From,
                       PolyEvaluate(state.Polynomial, IDScalar(inputMsgs[i].From)).value)
              EXCEPT !.KeyGen1 = inputMsgs[i].KeyGen1]>>
         \o Round1OutOfBatch(state, inputMsgs, i + 1)

\* Round1 of the second copy: [res, msgs, secret, state]; the commitments
\* are gathered in local variables and stored in the state at the end, and
\* the slice of the messages is made with capacity len(inputMsgs) - 1
Round1OfBatch(state, inputMsgs) ==
    LET fresh == [state EXCEPT !.Commitments = EmptyMap,
                               !.CommitmentsSum = NewPolynomialExponent(state.Polynomial)]
        r == Round1Loop(fresh, inputMsgs, 1)
        fail(res) == [res |-> res, msgs |-> <<>>, secret |-> Zero, state |-> state]
    IN IF r.res # "ok" THEN fail(r.res)
       ELSE IF Len(inputMsgs) = 0 THEN fail("panic")
       ELSE IF \E i \in DOMAIN inputMsgs :
                  /\ inputMsgs[i].From # state.SelfID
                  /\ PolyEvaluate(state.Polynomial, IDScalar(inputMsgs[i].From)).panic
            THEN fail("panic")
       ELSE [res |-> "ok", msgs |-> Round1OutOfBatch(state, inputMsgs, 1),
             secret |-> PolyEvaluate(state.Polynomial, IDScalar(state.SelfID)).value,
             state |-> r.state]

\* msgs holds exactly one KeyGen2 message for every party other than the
\* party of state, from that party, with the share f(j)
OneShareForEach(state, msgs) ==
    /\ Len(msgs) = Len(state.PartyIDs) - 1
    /\ \A i \in DOMAIN msgs :
          /\ msgs[i].Type = MessageTypeKeyGen2
          /\ msgs[i].From = state.SelfID
          /\ msgs[i].To # state.SelfID
          /\ msgs[i].KeyGen2.Share
                = PolyEvaluate(state.Polynomial, IDScalar(msgs[i].To)).value
    /\ \A j \in SeqToSet(state.PartyIDs) \ {state.SelfID} :
          \E i \in DOMAIN msgs : msgs[i].To = j

\* C27: Round1 on success returns exactly one KeyGen2 message for each j of
\* the party IDs other than the party itself (N-1 messages, none to itself),
\* each with From = self, To = j and the share f(j), whichever KeyGen1
\* messages were in the batch; this for both copies of Round1.
C27_OneShareForEachParty ==
    kpc[victim] = "init" =>
        \A batch \in BoundedSeqs(KeyGen1Pool, MaxBatch) :
            /\ Round1(kst[victim], batch).res = "ok" =>
                  OneShareForEach(kst[victim], Round1(kst[victim], batch).msgs)
            /\ Round1OfBatch(kst[victim], batch).res = "ok" =>
                  OneShareForEach(kst[victim], Round1OfBatch(kst[victim], batch).msgs)

\* ------------------------------------------------------------------------
\* Polynomial.Evaluate on any polynomial at any index
\* ------------------------------------------------------------------------

\* the largest degree of the polynomials evaluated
MaxDegree == 2

\* one party holds a polynomial of any degree up to MaxDegree with any
\* coefficients
InitPolynomial ==
    /\ cfg \in {<<1, t>> : t \in 0 .. MaxDegree}
    /\ victim = 1
    /\ calls = 0
    /\ \E coefficients \in [0 .. T -> Scalars] :
          kst = [p \in Parties |->
                   IF p = victim THEN [NoState EXCEPT !.Threshold = T,
                                                      !.Polynomial = coefficients]
                   ELSE NoState]
    /\ kpc = [p \in Parties |-> "none"]
    /\ kg1 = [p \in Parties |-> NoMsg]
    /\ kg2 = [p \in Parties |-> <<>>]
    /\ kout = [p \in Parties |-> NoOutput]
    /\ klast = [p \in Parties |-> NoBatch]
    /\ SignIdleVars

\* computedResultScalar := polynomial.Evaluate(x.Scalar()) for an ID x, also
\* the ID 0; the ID and the result are kept in SelfID and Secret
EvaluateAtID(x) ==
    /\ calls < MaxCalls
    /\ calls' = calls + 1
    /\ LET r == PolyEvaluate(kst[victim].Polynomial, IDScalar(x))
       IN /\ kst' = [kst EXCEPT ![victim].SelfID = x,
                                 ![victim].Secret = IF r.panic THEN @ ELSE r.value]
          /\ kpc' = [kpc EXCEPT ![victim] = IF r.panic THEN "panic" ELSE "ok"]
    /\ UNCHANGED <<cfg, victim, kg1, kg2, kout, klast>>
    /\ UNCHANGED svars

NextPolynomial == \E x \in Scalars : EvaluateAtID(x)

SpecPolynomial == InitPolynomial /\ [][NextPolynomial]_vars

\* expectedResult: the sum of a_k * x^k for k from i to the degree
RECURSIVE SumOfPowers(_, _, _)
SumOfPowers(p, x, i) ==
    IF i > PolyDegree(p) THEN 0
    ELSE ScAdd(ScMul(p[i], ScPow(x, i)), SumOfPowers(p, x, i + 1))

\* C28: Evaluate(x) returns the sum over k of a_k * x^k in the scalar field
\* for every nonzero x and every coefficient list; Evaluate at x = 0 fails
\* and returns no value.
C28_EvaluateIsSumOfPowers ==
    kpc[victim] # "none" =>
        IF IDScalar(kst[victim].SelfID) = Zero
        THEN kpc[victim] = "panic"
        ELSE /\ kpc[victim] = "ok"
             /\ kst[victim].Secret
                   = SumOfPowers(kst[victim].Polynomial, IDScalar(kst[victim].SelfID), 0)

C28_Witness ==
    /\ kpc[victim] = "ok"
    /\ calls = MaxCalls
    /\ PolyDegree(kst[victim].Polynomial) = MaxDegree
    /\ kst[victim].Polynomial[MaxDegree] > 1
    /\ kst[victim].Polynomial[1] > 1
    /\ IDScalar(kst[victim].SelfID) > 1
    /\ kst[victim].Secret
          = SumOfPowers(kst[victim].Polynomial, IDScalar(kst[victim].SelfID), 0)

\* ------------------------------------------------------------------------
\* A Schnorr proof made and verified for any ID, context and secret
\* ------------------------------------------------------------------------

\* the IDs of the provers: two party IDs and the ID of the test
ProverIDs == {1, 2, 42}

\* the contexts: the 32 zero bytes and one other
Contexts == {ZeroCtx, 1}

\* partyID, ctx and private are chosen; the prover's State holds the ID and
\* the secret, the variable message the context
InitSchnorr ==
    /\ cfg = <<1, 0>>
    /\ victim = 1
    /\ calls = 0
    /\ \E id \in ProverIDs, private \in Scalars :
          kst = [p \in Parties |->
                   IF p = victim THEN [NoState EXCEPT !.SelfID = id, !.Secret = private]
                   ELSE NoState]
    /\ kpc = [p \in Parties |-> "none"]
    /\ kg1 = [p \in Parties |-> NoMsg]
    /\ kg2 = [p \in Parties |-> <<>>]
    /\ kout = [p \in Parties |-> NoOutput]
    /\ klast = [p \in Parties |-> NoBatch]
    /\ signerIDs = <<>>
    /\ message \in Contexts
    /\ sst = [p \in Parties |-> NoSignerState]
    /\ spc = [p \in Parties |-> "none"]
    /\ s1 = [p \in Parties |-> NoMsg]
    /\ s2 = [p \in Parties |-> NoMsg]
    /\ sig = [p \in Parties |-> NoSignature]
    /\ issued = [p \in Parties |-> {}]
    /\ slast = [p \in Parties |-> NoSignBatch]
    /\ files = [p \in Parties |-> NoFiles]

\* public := ScalarBaseMult(private); proof := NewSchnorrProof(partyID,
\* public, ctx, private), with any sampled nonce k; the proof and the public
\* element are kept as a KeyGen1 payload
SchnorrProve ==
    /\ kpc[victim] = "none"
    /\ \E k \in Scalars :
          LET public == ScalarBaseMult(kst[victim].Secret)
              proof == NewSchnorrProof(kst[victim].SelfID, public, message,
                                       kst[victim].Secret, k)
          IN kg1' = [kg1 EXCEPT ![victim] =
                        NewKeyGen1(kst[victim].SelfID, proof, <<public>>)]
    /\ kpc' = [kpc EXCEPT ![victim] = "init"]
    /\ UNCHANGED <<cfg, victim, calls, kst, kg2, kout, klast>>
    /\ UNCHANGED svars

\* proof.Verify(partyID, public, ctx)
SchnorrCheck ==
    /\ kpc[victim] = "init"
    /\ kpc' = [kpc EXCEPT ![victim] =
                  IF SchnorrVerify(kg1[victim].KeyGen1.Proof, kg1[victim].From,
                                   kg1[victim].KeyGen1.Commitments[1], message)
                  THEN "ok" ELSE "error"]
    /\ UNCHANGED <<cfg, victim, calls, kst, kg1, kg2, kout, klast>>
    /\ UNCHANGED svars

NextSchnorr == SchnorrProve \/ SchnorrCheck

SpecSchnorr == InitSchnorr /\ [][NextSchnorr]_vars

\* C29: for every party ID, context and secret a the proof
\* NewSchnorrProof(id, a * B, ctx, a) is accepted by Verify(id, a * B, ctx),
\* and Verify accepts exactly when s * B - e * A = M for the challenge e
\* recomputed from id, ctx, A and M.
C29_ProofAccepted ==
    kpc[victim] \in {"ok", "error"} =>
        LET proof == kg1[victim].KeyGen1.Proof
            A == ScalarBaseMult(kst[victim].Secret)
            e == SchnorrChallenge(kst[victim].SelfID, A, message, proof.M)
        IN /\ kpc[victim] = "ok"
           /\ kg1[victim].KeyGen1.Commitments[1] = A
           /\ ElAdd(ScalarBaseMult(proof.S), ElNeg(ScalarMult(e, A))) = proof.M
           /\ \A id \in ProverIDs, ctx \in Contexts, public \in Elements :
                 SchnorrVerify(proof, id, public, ctx)
                   <=> (ElAdd(ScalarBaseMult(proof.S),
                              ElNeg(ScalarMult(SchnorrChallenge(id, public, ctx, proof.M),
                                               public))) = proof.M)

C29_Witness ==
    /\ kpc[victim] = "ok"
    /\ kst[victim].SelfID = 42
    /\ kst[victim].Secret > 1
    /\ message # ZeroCtx
    /\ kg1[victim].KeyGen1.Proof.M # Identity
    /\ SchnorrChallenge(42, ScalarBaseMult(kst[victim].Secret), message,
                        kg1[victim].KeyGen1.Proof.M) > 1

\* ------------------------------------------------------------------------
\* The signature under the verifier of crypto/ed25519
\* ------------------------------------------------------------------------

\* Signature.ToEd25519: the bytes of R, then the bytes of S
SignatureToEd25519(signature) == ScalarBytes(signature.R) \o ScalarBytes(signature.S)

\* PublicKey.ToEd25519: the bytes of A
PublicKeyToEd25519(groupKey) == ScalarBytes(groupKey)

\* ed25519.Verify(publicKey, message, sig): the key must decode to a point,
\* sig must be R || S with S reduced, and [S]B = R + [h]A must hold for
\* h = H(R || A || m) reduced to a scalar.  The hash of the encodings is the
\* digest of the encoded numbers, as in ComputeChallenge.
ed25519_Verify(publicKey, msg, signature) ==
    /\ Len(publicKey) = 2
    /\ Len(signature) = 4
    /\ LET A == SetCanonicalBytes(publicKey)
           R == SetCanonicalBytes(SubSeq(signature, 1, 2))
           S == SetCanonicalBytes(SubSeq(signature, 3, 4))
           h == SetUniformBytes(Digest(<<R.value, A.value, msg>>))
       IN /\ ~A.err
          /\ ~R.err
          /\ ~S.err
          /\ ScalarBaseMult(S.value) = ElAdd(R.value, ScalarMult(h, A.value))

writeFile(fs, filename, data) == [fs EXCEPT ![filename] = data]

\* Signature.MarshalBinary: the bytes of R, then the bytes of S
SignatureMarshalBinary(signature) ==
    [kind |-> "signature", data |-> ScalarBytes(signature.R) \o ScalarBytes(signature.S)]

\* SignerState.MarshalJSON and Message.MarshalJSON, as file contents
SignerStateData(state) == [kind |-> "state", data |-> state]

MessageData(msg) == [kind |-> "message", data |-> MessageMarshalJSON(msg)]

\* initSigner: the Sign1 message goes to --output, the state to --state;
\* after an error nothing is written
HostInitSigner(p) ==
    /\ p \in SignerSet
    /\ spc[p] = "none"
    /\ \E d, e \in Nonces :
          LET r == SignInit(signerIDs, kout[p].sec, kout[p].pub, message, d, e)
          IN /\ sst' = [sst EXCEPT ![p] = r.state]
             /\ s1' = [s1 EXCEPT ![p] = r.msg]
             /\ spc' = [spc EXCEPT ![p] = IF r.res = "ok" THEN "init" ELSE r.res]
             /\ files' = [files EXCEPT ![p] =
                             IF r.res # "ok" THEN @
                             ELSE writeFile(writeFile(@, "output", MessageData(r.msg)),
                                            "state", SignerStateData(r.state))]
    /\ UNCHANGED <<signerIDs, message, s2, sig, issued, slast>>
    /\ UNCHANGED kvars

\* signRound1: the Sign2 message goes to --output, the state to --state
HostSignRound1(p) ==
    /\ p \in SignerSet
    /\ spc[p] = "init"
    /\ \A q \in SignerSet : s1[q] # NoMsg
    /\ LET r == SignRound1(files[p].state.data, FromFiles(SignBatch(s1)))
       IN /\ sst' = [sst EXCEPT ![p] = r.state]
          /\ s2' = [s2 EXCEPT ![p] = r.msg]
          /\ spc' = [spc EXCEPT ![p] = IF r.res = "ok" THEN "r1" ELSE r.res]
          /\ issued' = [issued EXCEPT ![p] =
                           IF r.res = "ok" THEN @ \cup {r.msg.Sign2.Zi} ELSE @]
          /\ files' = [files EXCEPT ![p] =
                          IF r.res # "ok" THEN @
                          ELSE writeFile(writeFile(@, "output", MessageData(r.msg)),
                                         "state", SignerStateData(r.state))]
    /\ UNCHANGED <<signerIDs, message, s1, sig, slast>>
    /\ UNCHANGED kvars

\* signRound2: after the check with ed25519.Verify the signature is written
\* to --output, and then the state is written to --output as well
HostSignRound2(p) ==
    /\ p \in SignerSet
    /\ spc[p] = "r1"
    /\ \A q \in SignerSet : s2[q] # NoMsg
    /\ LET r == SignRound2(files[p].state.data, FromFiles(SignBatch(s2)))
           valid == ed25519_Verify(PublicKeyToEd25519(r.state.GroupKey), r.state.Message,
                                   SignatureToEd25519(r.sig))
       IN /\ sst' = [sst EXCEPT ![p] = r.state]
          /\ sig' = [sig EXCEPT ![p] = r.sig]
          /\ spc' = [spc EXCEPT ![p] = IF r.res # "ok" THEN r.res
                                       ELSE IF ~valid THEN "panic" ELSE "done"]
          /\ files' = [files EXCEPT ![p] =
                          IF r.res # "ok" \/ ~valid THEN @
                          ELSE writeFile(writeFile(@, "output", SignatureMarshalBinary(r.sig)),
                                         "output", SignerStateData(r.state))]
    /\ UNCHANGED <<signerIDs, message, s1, s2, issued, slast>>
    /\ UNCHANGED kvars

NextSignHost ==
    \E p \in Parties : HostInitSigner(p) \/ HostSignRound1(p) \/ HostSignRound2(p)

SpecSignHost == InitSign /\ [][NextSignHost]_vars

\* C31: after the round2 step of the sign command has succeeded, the file
\* named by --output holds the bytes of the signature; the state does not
\* overwrite it.
C31_OutputHoldsSignature ==
    \A p \in SignerSet :
        spc[p] = "done" =>
            /\ files[p].output.kind = "signature"
            /\ files[p].output = SignatureMarshalBinary(sig[p])

\* C32: T out of N participants are enough to sign: when exactly T parties
\* that hold shares of an honest key generation with threshold T have run
\* the signing session to its end, every one of them holds a signature that
\* is valid for the group key.
C32_ThresholdPartiesSign ==
    (/\ Len(signerIDs) = T
     /\ \A p \in SignerSet : spc[p] \notin {"none", "init", "r1"}) =>
        \A p \in SignerSet :
            /\ spc[p] = "done"
            /\ ~sig[p].nil
            /\ Verify(kout[p].pub.GroupKey, message, sig[p])

\* ------------------------------------------------------------------------
\* Key generation with the states and messages kept in memory
\* ------------------------------------------------------------------------

\* the KeyGen1 messages of all parties, one list shared by the parties
SharedKeyGen1 == [i \in 1 .. N |-> kg1[i]]

\* Round0 of p; the State and the message stay in memory as returned: the
\* Commitments map is nil, and the message's Commitments is the Exponent
\* object that is the state's CommitmentsSum
MemRound0(p) ==
    /\ p \in Active
    /\ kpc[p] = "none"
    /\ \E rnd \in [0 .. T -> 0 .. MaxCoef], k \in ProofNonces :
          LET r == Round0(p, N, T, rnd, k)
          IN /\ kst' = [kst EXCEPT ![p] = r.state]
             /\ kg1' = [kg1 EXCEPT ![p] = r.msg]
             /\ kpc' = [kpc EXCEPT ![p] = IF r.res = "ok" THEN "init" ELSE r.res]
    /\ UNCHANGED <<cfg, victim, calls, kg2, kout, klast>>
    /\ UNCHANGED svars

\* the caller makes the Commitments map, as State.UnmarshalJSON does
MemMakeCommitments(p) ==
    /\ p \in Active
    /\ kpc[p] = "init"
    /\ kst[p].Commitments.nil
    /\ kst' = [kst EXCEPT ![p].Commitments = EmptyMap]
    /\ UNCHANGED <<cfg, victim, calls, kpc, kg1, kg2, kout, klast>>
    /\ UNCHANGED svars

\* Round1 of p on the shared list.  CommitmentsSum.Add changes the Exponent
\* object in place, and that object is also the Commitments of p's KeyGen1
\* message and the entry for p in the Commitments map of every party that
\* has stored it
MemRound1(p) ==
    /\ p \in Active
    /\ kpc[p] = "init"
    /\ \A q \in Active : kg1[q] # NoMsg
    /\ LET r == Round1(kst[p], SharedKeyGen1)
       IN /\ kst' = [q \in Parties |->
                        IF q = p THEN r.state
                        ELSE IF MapHas(kst[q].Commitments, p)
                        THEN [kst[q] EXCEPT !.Commitments.m[p] = r.state.CommitmentsSum]
                        ELSE kst[q]]
          /\ kg1' = [kg1 EXCEPT ![p].KeyGen1.Commitments = r.state.CommitmentsSum]
          /\ kg2' = [kg2 EXCEPT ![p] = r.msgs]
          /\ kpc' = [kpc EXCEPT ![p] = IF r.res = "ok" THEN "r1" ELSE r.res]
    /\ UNCHANGED <<cfg, victim, calls, kout, klast>>
    /\ UNCHANGED svars

NextKeygenMemory ==
    \E p \in Parties : MemRound0(p) \/ MemMakeCommitments(p) \/ MemRound1(p)

SpecKeygenMemory == Init /\ [][NextKeygenMemory]_vars

\* C33: a KeyGen1 message returned by Round0 is never modified by a later
\* step of its sender: its commitments stay the sender's own F, so that
\* every order of the parties' Round1 calls on a shared list gives the same
\* outcome and every receiver checks the proof against the sender's own
\* constant term.
C33_KeyGen1NotModified ==
    \A p \in Active :
        /\ kg1[p] # NoMsg =>
              kg1[p].KeyGen1.Commitments = NewPolynomialExponent(kst[p].Polynomial)
        /\ (kpc[p] \notin {"none", "init"} /\ ~kst[p].Commitments.nil) =>
              kpc[p] = "r1"

\* C34: Round1 applied to the State object that Round0 returned, with
\* nothing in between, on a batch that holds the valid KeyGen1 message of
\* another party, does not crash and stores that party's commitments.
C34_Round1AfterRound0 ==
    \A p, q \in Active :
        (/\ p # q
         /\ kpc[p] = "init"
         /\ kst[p].Commitments.nil
         /\ kpc[q] = "init") =>
            LET r == Round1(kst[p], <<kg1[q]>>)
            IN /\ r.res = "ok"
               /\ MapHas(r.state.Commitments, q)
               /\ r.state.Commitments.m[q] = NewPolynomialExponent(kst[q].Polynomial)

\* C35: after Round1 has succeeded, CommitmentsSum is the coefficient-wise
\* sum of the party's own F and the F_j of every other party, each counted
\* once, and Commitments has exactly the other parties as keys; the constant
\* term of the sum is the group key that Round2 returns and its value at id
\* is Shares[id].
C35_CommitmentsSumOfAll ==
    \A p \in Active :
        /\ kpc[p] \in {"r1", "done"} =>
              /\ DOMAIN kst[p].Commitments.m = Active \ {p}
              /\ \A q \in Active \ {p} :
                    kst[p].Commitments.m[q] = kg1[q].KeyGen1.Commitments
              /\ kst[p].CommitmentsSum
                    = SumCommitments(NewPolynomialExponent(kst[p].Polynomial),
                                     Active \ {p})
        /\ kpc[p] = "done" =>
              /\ kout[p].pub.GroupKey = ExpConstant(kst[p].CommitmentsSum)
              /\ \A id \in Active :
                    kout[p].pub.Shares[id] = ExpEvaluate(kst[p].CommitmentsSum, IDScalar(id))

\* the sum of the weighted public shares of the signers of ids (a set)
RECURSIVE SumPublic(_, _)
SumPublic(state, ids) ==
    IF ids = {} THEN Identity
    ELSE LET q == CHOOSE x \in ids : TRUE
         IN ElAdd(SumPublic(state, ids \ {q}), state.Signers[q].Public)

C37_ErrorLeavesState ==
    /\ kpc[victim] = "init" =>
          \A batch \in BoundedSeqs(KeyGen1Pool, MaxBatch) :
              Round1(kst[victim], batch).res = "error" =>
                  Round1(kst[victim], batch).state = kst[victim]
    /\ kpc[victim] = "r1" =>
          \A batch \in BoundedSeqs(KeyGen2Pool, MaxBatch) :
              Round2(kst[victim], batch).res = "error" =>
                  Round2(kst[victim], batch).state = kst[victim]

\* the KeyGen2 messages of the other parties that are not addressed to the
\* victim: those their Round1 made for the other parties, and the one made for
\* the victim with another party in its To field
KeyGen2ToOthers ==
    UNION {{m \in SeqToSet(kg2[q]) : m.To # victim} : q \in Active \ {victim}}
        \cup {NewKeyGen2(q, o, KG2To(q, victim).KeyGen2.Share) :
                  q \in Active \ {victim}, o \in Active \ {victim}}

\* C38: Round2 never adds to its secret accumulator the share of a KeyGen2
\* message whose To field is not the party's own ID: such a message in the
\* batch is ignored or rejected.
C38_OnlySharesAddressedToSelf ==
    kpc[victim] = "r1" =>
        \A m \in KeyGen2ToOthers :
            \A rest \in BoundedSeqs(KeyGen2Pool, MaxBatch - 1) :
                Round2(kst[victim], <<m>> \o rest).state.Secret
                    = Round2(kst[victim], rest).state.Secret
                \/ Round2(kst[victim], <<m>> \o rest).res = "error"

\* ------------------------------------------------------------------------
\* The secret file of the keygen command
\* ------------------------------------------------------------------------

\* readScalarFromFile: the bytes of the file decoded with clamping
readScalarFromFile(data) == SetBytesWithClamping(data[1] + 256 * data[2])

\* keyGenRound1: the bytes written to the file named by --output, the bytes
\* of the secret that Round1 returned
keyGenRound1(state, batch) ==
    LET r == Round1OfBatch(state, batch)
    IN [res |-> r.res, output |-> ScalarBytes(r.secret), secret |-> r.secret]

\* C39: the secret that the round1 step of the keygen command writes to its
\* output file is read back by the round2 step as the same scalar, so the
\* share given to Round2 is f(self_id) as Round1 computed it.
C39_SecretFileReadBack ==
    \A p \in Active :
        (kpc[p] = "init" /\ \A q \in Active : kpc[q] # "none") =>
            LET r == keyGenRound1(kst[p], FromFiles(MsgsOf(kg1, Active)))
            IN r.res = "ok" =>
                  /\ r.secret = PolyEvaluate(kst[p].Polynomial, IDScalar(p)).value
                  /\ readScalarFromFile(r.output) = r.secret

\* ------------------------------------------------------------------------
\* Equality of messages
\* ------------------------------------------------------------------------

\* Header.equal: the three fields of the header compared
Header_equal(h, other) ==
    h.Type = other.Type /\ h.From = other.From /\ h.To = other.To

\* KeyGen1.equal: the proofs equal and the commitments equal
KeyGen1_equal(m, other) ==
    other.Proof = m.Proof /\ other.Commitments = m.Commitments

\* KeyGen2.equal: the shares equal
KeyGen2_equal(m, other) == other.Share = m.Share

\* Message.Equal on two messages: the headers, then for a KeyGen2 message the
\* KeyGen2 payloads when both are there, then (KeyGen2 falls through to
\* KeyGen1) the KeyGen1 payloads when both are there; every other path
\* returns false
Message_Equal(m, otherMsg) ==
    IF ~Header_equal(m, otherMsg) THEN FALSE
    ELSE IF m.Type = MessageTypeKeyGen2
              /\ ~m.KeyGen2.nil /\ ~otherMsg.KeyGen2.nil
              /\ ~KeyGen2_equal(m.KeyGen2, otherMsg.KeyGen2)
         THEN FALSE
    ELSE IF m.Type \in {MessageTypeKeyGen2, MessageTypeKeyGen1}
              /\ ~m.KeyGen1.nil /\ ~otherMsg.KeyGen1.nil
         THEN KeyGen1_equal(m.KeyGen1, otherMsg.KeyGen1)
    ELSE FALSE

\* C40: Message.Equal is reflexive and agrees with field equality: for
\* every message m of any type m.Equal(m) is true, and m.Equal(o) is true
\* exactly when the header and the payload of m and o are equal.
C40_EqualIsFieldEquality ==
    \A m, o \in ReturnedMessages :
        /\ Message_Equal(m, m)
        /\ Message_Equal(m, o) <=> (m = o)

====
